---------------------------- MODULE Spec2Model ----------------------------
(***************************************************************************)
(* Model of the inventory assistant: the inventory service (a Lambda with  *)
(* an in-memory two-item map), the client that talks to it                 *)
(* (InventoryClient) and the query processor (process_query and its regex  *)
(* helpers).                                                               *)
(*                                                                         *)
(* Text.  A request text is a sequence of tokens separated by single       *)
(* blanks; a token is a record [k, n]: k names a word of the vocabulary    *)
(* below or one of the numeric forms "num" (N), "plus" (+N), "minus" (-N), *)
(* and n is the number N (0 for words).  Every regular expression of the   *)
(* source is translated to what it matches on such token sequences; the    *)
(* comment on each operator quotes the expression.  Facts about the        *)
(* vocabulary the translations rely on:                                    *)
(*   - "t-shirts", ",", +N and -N are not \w+ words; every other token is; *)
(*   - the tokens that contain a '-' are "t-shirts" and -N, the tokens     *)
(*     that contain a '+' are +N;                                          *)
(*   - no word contains another word of the vocabulary that a pattern      *)
(*     looks for, except that "t-shirts" contains "shirts".                *)
(***************************************************************************)
EXTENDS Integers, Sequences, FiniteSets, TLC

\* ------------------------------------------------------------------ bounds
MaxQty == 2          \* quantities written in generated texts: 1..MaxQty
MaxLen == 3          \* length of the exhaustively generated texts
BigQty == 30         \* a quantity larger than either initial stock

\* ------------------------------------------------------------------ tokens
Words == {"add", "get", "remove", "sold", "bought", "some", "more", "shirts",
          "t-shirts", "pants", "hats", "and", ",", "stock", "red"}
Quantities == 1..MaxQty
NumericKinds == {"num", "plus", "minus"}
W(w) == [k |-> w, n |-> 0]
Num(q) == [k |-> "num", n |-> q]
Plus(q) == [k |-> "plus", n |-> q]
Minus(q) == [k |-> "minus", n |-> q]
Vocab == {W(w) : w \in Words} \cup [k : NumericKinds, n : Quantities]

IsNumeric(t) == t.k \in NumericKinds
\* a token that \w+ matches whole
IsWordTok(t) == t.k \notin {"t-shirts", ",", "plus", "minus"}

\* (?:t-?shirts?|shirts?|tees?)   and   (?:pants?|trousers?)
ShirtNouns == {"shirts", "t-shirts"}
PantsNouns == {"pants"}
\* (?:shoes|socks|hats|caps|jackets|sweaters|hoodies)
UnknownNouns == {"hats"}
Items == {"tshirts", "pants"}

\* ------------------------------------------------------------------ Operation
Get == [operation_type |-> "get", item |-> "none", change |-> 0]
UnknownItem == [operation_type |-> "unknown_item", item |-> "none", change |-> 0]
Update(item, change) == [operation_type |-> "update", item |-> item, change |-> change]

\* re.search(r'\d+', query_lower)
HasDigit(q) == \E i \in 1..Len(q) : IsNumeric(q[i])

\* re.search(verb \s+ (?:mods)* \s* noun (?!\s+\d+)) on a text: the verb,
\* then the noun either in the next token or after one token made of
\* modifiers (the repeated group has no blank between two modifiers).  The
\* lookahead is only consulted on texts with a digit, which line 188 rejects.
NQCMatch(q, verbs, mods, nouns) ==
    \E i \in 1..Len(q) :
        /\ q[i].k \in verbs
        /\ \/ i + 1 <= Len(q) /\ q[i + 1].k \in nouns
           \/ i + 2 <= Len(q) /\ q[i + 1].k \in mods /\ q[i + 2].k \in nouns

NQCPatterns ==
    << [verbs |-> {"add", "get"}, mods |-> {"some", "more"}, nouns |-> ShirtNouns,
        item |-> "tshirts", action |-> "add"],
       [verbs |-> {"add", "get"}, mods |-> {"some", "more"}, nouns |-> PantsNouns,
        item |-> "pants", action |-> "add"],
       [verbs |-> {"remove", "sold"}, mods |-> {"some"}, nouns |-> ShirtNouns,
        item |-> "tshirts", action |-> "remove"],
       [verbs |-> {"remove", "sold"}, mods |-> {"some"}, nouns |-> PantsNouns,
        item |-> "pants", action |-> "remove"] >>

NoClarification == [needed |-> FALSE, item |-> "none", action |-> "none"]

needs_quantity_clarification(q) ==
    LET hits == {i \in 1..Len(NQCPatterns) :
                    /\ NQCMatch(q, NQCPatterns[i].verbs, NQCPatterns[i].mods,
                                NQCPatterns[i].nouns)
                    /\ ~HasDigit(q)}
    IN  IF hits = {} THEN NoClarification
        ELSE LET p == NQCPatterns[CHOOSE i \in hits : \A j \in hits : i <= j]
             IN  [needed |-> TRUE, item |-> p.item, action |-> p.action]

\* re.search(r'how many|what.*inventory|stock|do we have|current|tell me|
\*             show me|levels|count', query_lower)
IsInventoryCheck(q) == \E i \in 1..Len(q) : q[i].k = "stock"

\* variant: the '-' of "t-shirts" does not count
HasActionOrSymbol_no_hyphen(q) ==
    \E i \in 1..Len(q) :
        q[i].k \in {"add", "remove", "sold", "bought", "plus", "minus"}

\* re.search(r'add|remove|sell|sold|buy|bought|ship|receive|update|\+|-', ...)
HasActionOrSymbol(q) ==
    \E i \in 1..Len(q) :
        q[i].k \in {"add", "remove", "sold", "bought", "plus", "minus", "t-shirts"}

RECURSIVE WordsThenUnknown(_, _)
\* from token j on: \w+ words, then a disallowed noun
WordsThenUnknown(q, j) ==
    IF j > Len(q) THEN FALSE
    ELSE IF q[j].k \in UnknownNouns THEN TRUE
    ELSE IF ~IsWordTok(q[j]) THEN FALSE
    ELSE WordsThenUnknown(q, j + 1)

\* re.findall(r'\b(\d+)\s*(?:\w+\s+)*(?:shoes|...|hats|...)\b', ...) is not empty
HasUnknownItem(q) ==
    \E i \in 1..Len(q) : IsNumeric(q[i]) /\ WordsThenUnknown(q, i + 1)

RECURSIVE SplitFrom(_, _, _, _)
\* re.split(r'\s+and\s+|,\s*', ...): a comma always separates; "and"
\* separates when blanks surround it, and the blank before it is gone when
\* the previous token was itself a separator.  The last element of segs is
\* the segment being read.
SplitFrom(q, i, segs, afterSep) ==
    IF i > Len(q) THEN segs
    ELSE LET last == Len(segs)
             isSep == \/ q[i].k = ","
                      \/ q[i].k = "and" /\ i > 1 /\ i < Len(q) /\ ~afterSep
         IN  IF isSep
             THEN SplitFrom(q, i + 1, Append(segs, << >>), TRUE)
             ELSE SplitFrom(q, i + 1,
                            [segs EXCEPT ![last] = Append(segs[last], q[i])],
                            FALSE)

Segments(q) == SplitFrom(q, 1, << << >> >>, TRUE)

\* The head of an item pattern matched at token i: the symbol form (+N or
\* -N in one token) or a verb followed by a number token.  <<quantity, index
\* of the head's last token>>, or << >> when the head does not match at i.
PatternHead(seg, i, p) ==
    IF seg[i].k = p.sym THEN << seg[i].n, i >>
    ELSE IF /\ seg[i].k \in p.verbs
            /\ i + 1 <= Len(seg)
            /\ seg[i + 1].k = "num"
         THEN << seg[i + 1].n, i + 1 >>
         ELSE << >>

RECURSIVE LastNoun(_, _, _, _)
\* (?:\s+\w+)*\s*(?:noun): greedy, so the last noun that only \w+ words
\* separate from the head; 0 when there is none.  j is the token examined.
LastNoun(seg, j, nouns, best) ==
    IF j > Len(seg) THEN best
    ELSE LET b == IF seg[j].k \in nouns THEN j ELSE best
         IN  IF IsWordTok(seg[j]) THEN LastNoun(seg, j + 1, nouns, b) ELSE b

RECURSIVE FindIter(_, _, _)
\* re.finditer(pattern, segment): the quantities of the non-overlapping
\* matches, left to right
FindIter(seg, i, p) ==
    IF i > Len(seg) THEN << >>
    ELSE LET hd == PatternHead(seg, i, p)
             j == IF hd = << >> THEN 0 ELSE LastNoun(seg, hd[2] + 1, p.nouns, 0)
         IN  IF j = 0 THEN FindIter(seg, i + 1, p)
             ELSE << hd[1] >> \o FindIter(seg, j + 1, p)

\* variant: the "-" of the symbol form is matched but its sign is lost
ItemPatterns_unsigned(nouns, item) ==
    << [verbs |-> {"add"}, sym |-> "plus", nouns |-> nouns, item |-> item,
        multiplier |-> 1],
       [verbs |-> {"add", "bought", "get"}, sym |-> "none", nouns |-> nouns,
        item |-> item, multiplier |-> 1],
       [verbs |-> {"remove"}, sym |-> "minus", nouns |-> nouns, item |-> item,
        multiplier |-> 1],
       [verbs |-> {"remove", "sold"}, sym |-> "none", nouns |-> nouns,
        item |-> item, multiplier |-> -1] >>

\* shirt_patterns / pants_patterns for the nouns of one item
ItemPatterns(nouns, item) ==
    << \* (?:add|\+)\s*(\d+)(?:\s+\w+)*\s*(?:noun)
       [verbs |-> {"add"}, sym |-> "plus", nouns |-> nouns, item |-> item,
        multiplier |-> 1],
       \* (?:add|buy|bought|receive|received|get|got)\s+(\d+)(?:\s+\w+)*\s*(?:noun)
       [verbs |-> {"add", "bought", "get"}, sym |-> "none", nouns |-> nouns,
        item |-> item, multiplier |-> 1],
       \* (?:remove|-)\s*(\d+)(?:\s+\w+)*\s*(?:noun)
       [verbs |-> {"remove"}, sym |-> "minus", nouns |-> nouns, item |-> item,
        multiplier |-> -1],
       \* (?:remove|sell|sold|ship|shipped)\s+(\d+)(?:\s+\w+)*\s*(?:noun)
       [verbs |-> {"remove", "sold"}, sym |-> "none", nouns |-> nouns,
        item |-> item, multiplier |-> -1] >>

shirt_patterns == ItemPatterns(ShirtNouns, "tshirts")
pants_patterns == ItemPatterns(PantsNouns, "pants")

\* variant: the key of an operation is never looked up
AddOperation_no_key(acc, item, change, marksFound) ==
    [operations |-> Append(acc.operations, Update(item, change)),
     processed |-> acc.processed \cup {<< item, change >>},
     patterns_found |-> acc.patterns_found \/ marksFound]

\* lines 256-269 and 280-295: append the Update unless its key was seen
AddOperation(acc, item, change, marksFound) ==
    IF << item, change >> \in acc.processed THEN acc
    ELSE [operations |-> Append(acc.operations, Update(item, change)),
          processed |-> acc.processed \cup {<< item, change >>},
          patterns_found |-> acc.patterns_found \/ marksFound]

RECURSIVE AddMatches_no_multiplier(_, _, _, _)
\* variant: the multiplier of the pattern is not applied
AddMatches_no_multiplier(acc, qtys, item, multiplier) ==
    IF qtys = << >> THEN acc
    ELSE AddMatches_no_multiplier(AddOperation(acc, item, qtys[1], TRUE),
                                  Tail(qtys), item, multiplier)

RECURSIVE AddMatches(_, _, _, _)
\* the loop "for match in matches" of one pattern
AddMatches(acc, qtys, item, multiplier) ==
    IF qtys = << >> THEN acc
    ELSE AddMatches(AddOperation(acc, item, qtys[1] * multiplier, TRUE),
                    Tail(qtys), item, multiplier)

RECURSIVE ApplyPatterns_first_wins(_, _, _)
\* variant: the first pattern of an item that matches ends the item's list
ApplyPatterns_first_wins(acc, seg, pats) ==
    IF pats = << >> THEN acc
    ELSE LET qtys == FindIter(seg, 1, pats[1])
             rest == IF qtys = << >> THEN Tail(pats)
                     ELSE SelectSeq(Tail(pats), LAMBDA p : p.item # pats[1].item)
         IN  ApplyPatterns_first_wins(AddMatches(acc, qtys, pats[1].item,
                                                 pats[1].multiplier),
                                      seg, rest)

RECURSIVE ApplyPatterns(_, _, _)
\* the loops over [shirt_patterns, pants_patterns] and over each list
ApplyPatterns(acc, seg, pats) ==
    IF pats = << >> THEN acc
    ELSE ApplyPatterns(AddMatches(acc, FindIter(seg, 1, pats[1]), pats[1].item,
                                  pats[1].multiplier),
                       seg, Tail(pats))

RECURSIVE SymbolIter(_, _)
\* re.finditer(r'([+-])(\d+)(?:\s+\w+)*\s*(?:t-?shirts?|...|trousers?)', segment):
\* the signed quantities of the matches
SymbolIter(seg, i) ==
    IF i > Len(seg) THEN << >>
    ELSE LET j == IF seg[i].k \in {"plus", "minus"}
                  THEN LastNoun(seg, i + 1, ShirtNouns \cup PantsNouns, 0)
                  ELSE 0
         IN  IF j = 0 THEN SymbolIter(seg, i + 1)
             ELSE << (IF seg[i].k = "plus" THEN 1 ELSE -1) * seg[i].n >>
                  \o SymbolIter(seg, j + 1)

\* any(word in segment for word in ["shirt", "tshirt", "t-shirt", "tee"])
MentionsShirt(seg) == \E i \in 1..Len(seg) : seg[i].k \in ShirtNouns

RECURSIVE AddSymbolMatches(_, _, _)
AddSymbolMatches(acc, changes, item) ==
    IF changes = << >> THEN acc
    ELSE AddSymbolMatches(AddOperation(acc, item, changes[1], FALSE),
                          Tail(changes), item)

\* the body of "for segment in segments" (lines 220-297)
ProcessSegment(acc, seg) ==
    IF seg = << >> THEN acc
    ELSE LET start == [acc EXCEPT !.patterns_found = FALSE]
             found == ApplyPatterns(start, seg, shirt_patterns \o pants_patterns)
         IN  IF found.patterns_found THEN found
             ELSE AddSymbolMatches(found, SymbolIter(seg, 1),
                                   IF MentionsShirt(seg) THEN "tshirts" ELSE "pants")

RECURSIVE ProcessSegments(_, _)
ProcessSegments(acc, segs) ==
    IF segs = << >> THEN acc
    ELSE ProcessSegments(ProcessSegment(acc, segs[1]), Tail(segs))

\* variant: no Get is appended
AppendGet_never(operations) == operations

\* lines 299-301: the trailing Get
AppendGet(operations) ==
    IF operations # << >>
       /\ \A i \in 1..Len(operations) : operations[i].operation_type = "update"
    THEN Append(operations, Get)
    ELSE operations

\* variant: disallowed items are looked for before the inventory check
extract_operations_from_query_unknown_first(q) ==
    IF HasUnknownItem(q) THEN << UnknownItem >>
    ELSE IF IsInventoryCheck(q) /\ ~HasActionOrSymbol(q) THEN << Get >>
    ELSE AppendGet(ProcessSegments([operations |-> << >>, processed |-> {},
                                    patterns_found |-> FALSE],
                                   Segments(q)).operations)

\* variant: disallowed items are looked for only when nothing was extracted
extract_operations_from_query_known_first(q) ==
    LET known == AppendGet(ProcessSegments([operations |-> << >>, processed |-> {},
                                            patterns_found |-> FALSE],
                                           Segments(q)).operations)
    IN  IF IsInventoryCheck(q) /\ ~HasActionOrSymbol(q) THEN << Get >>
        ELSE IF known # << >> THEN known
        ELSE IF HasUnknownItem(q) THEN << UnknownItem >>
        ELSE << >>

extract_operations_from_query(q) ==
    IF IsInventoryCheck(q) /\ ~HasActionOrSymbol(q) THEN << Get >>
    ELSE IF HasUnknownItem(q) THEN << UnknownItem >>
    ELSE AppendGet(ProcessSegments([operations |-> << >>, processed |-> {},
                                    patterns_found |-> FALSE],
                                   Segments(q)).operations)

\* variant: the set of keys is created once and shared by all calls
NewOperations_shared(left) ==
    [operations |-> << >>, processed |-> left.processed, patterns_found |-> FALSE]

\* lines 201-202: each call creates its list and its set of keys, whatever
\* an earlier call left behind
NewOperations(left) ==
    [operations |-> << >>, processed |-> {}, patterns_found |-> FALSE]

\* one call of extract_operations_from_query in a sequence of calls: left is
\* the list and the set of keys of the call before it; the result and what
\* this call leaves
ExtractCall(left, q) ==
    LET start == NewOperations(left)
    IN  IF IsInventoryCheck(q) /\ ~HasActionOrSymbol(q)
        THEN [operations |-> << Get >>, left |-> start]
        ELSE IF HasUnknownItem(q)
        THEN [operations |-> << UnknownItem >>, left |-> start]
        ELSE LET end == ProcessSegments(start, Segments(q))
             IN  [operations |-> AppendGet(end.operations), left |-> end]

\* re.search(r'\b(\d+)\b', query): the first integer standing alone; +N and
\* -N hold one.  0 tokens with a digit: << >>.
FirstInteger(q) ==
    IF HasDigit(q)
    THEN << q[CHOOSE i \in 1..Len(q) :
                 IsNumeric(q[i]) /\ \A j \in 1..(i - 1) : ~IsNumeric(q[j])].n >>
    ELSE << >>

\* any(word in query.text.lower() for word in ["add", "sell", "sold", "remove", "bought"])
HasActionKeyword(q) ==
    \E i \in 1..Len(q) : q[i].k \in {"add", "sold", "remove", "bought"}

\* ------------------------------------------------------------------ clarification
EmptyState == [awaiting_clarification |-> FALSE, item |-> "none", action |-> "none"]
AwaitingState(item, action) ==
    [awaiting_clarification |-> TRUE, item |-> item, action |-> action]

\* variant: the pending action is ignored, the quantity is always added
handle_clarification_response_unsigned(q, conversation_state) ==
    IF ~conversation_state.awaiting_clarification THEN << >>
    ELSE IF FirstInteger(q) = << >> THEN << >>
    ELSE IF conversation_state.item = "none" \/ conversation_state.action = "none"
         THEN << >>
    ELSE << Update(conversation_state.item, FirstInteger(q)[1]) >>

\* variant: an answer without an integer counts as one unit
handle_clarification_response_default_one(q, conversation_state) ==
    IF ~conversation_state.awaiting_clarification THEN << >>
    ELSE IF conversation_state.item = "none" \/ conversation_state.action = "none"
         THEN << >>
    ELSE LET quantity == IF FirstInteger(q) = << >> THEN 1 ELSE FirstInteger(q)[1]
         IN  << Update(conversation_state.item,
                       IF conversation_state.action = "add" THEN quantity
                       ELSE -quantity) >>

\* << >> for None, << operation >> otherwise
handle_clarification_response(q, conversation_state) ==
    IF ~conversation_state.awaiting_clarification THEN << >>
    ELSE IF FirstInteger(q) = << >> THEN << >>
    ELSE IF conversation_state.item = "none" \/ conversation_state.action = "none"
         THEN << >>
    ELSE LET quantity == FirstInteger(q)[1]
         IN  << Update(conversation_state.item,
                       IF conversation_state.action = "add" THEN quantity
                       ELSE -quantity) >>

\* ------------------------------------------------------------------ completion model
\* What the code reads in a reply of the completion model.  get: the reply
\* contains "GET /inventory"; posts: the {"item": .., "change": ..} objects
\* in it; the other fields describe the clarifying question left in the
\* reply after clean_response: its form ("verb": how many <noun> [did
\* you|would you like to] <verb>; "specify": specify the number of <noun>;
\* "would": how many <noun> would you like; "generic": how many
\* items|pieces|units; "none"), the item its noun names (for "generic": the
\* item named anywhere in the reply), the verb of the "verb" form, and
\* whether "sell"/"remove" and "add" occur elsewhere in the reply.
Reply(get, posts, form, noun, verb, sellOrRemove, add) ==
    [get |-> get, posts |-> posts, form |-> form, noun |-> noun, verb |-> verb,
     sellOrRemove |-> sellOrRemove, add |-> add]

LLMReplies ==
    { Reply(FALSE, << >>, "none", "none", "none", FALSE, FALSE),
      Reply(TRUE, << >>, "none", "none", "none", FALSE, FALSE),
      Reply(FALSE, << [item |-> "tshirts", change |-> 1] >>, "none", "none",
            "none", FALSE, TRUE),
      Reply(FALSE, << [item |-> "hats", change |-> 1],
                      [item |-> "pants", change |-> -1] >>, "none", "none",
            "none", TRUE, FALSE),
      Reply(FALSE, << >>, "verb", "tshirts", "add", FALSE, FALSE),
      Reply(FALSE, << >>, "would", "pants", "none", TRUE, FALSE),
      Reply(FALSE, << >>, "generic", "none", "none", FALSE, FALSE) }

RECURSIVE PostOperations(_)
\* lines 154-161: the matches whose item is known, in order
PostOperations(posts) ==
    IF posts = << >> THEN << >>
    ELSE (IF posts[1].item \in Items
          THEN << Update(posts[1].item, posts[1].change) >> ELSE << >>)
         \o PostOperations(Tail(posts))

extract_operations_from_llm_response(r) ==
    (IF r.get THEN << Get >> ELSE << >>) \o PostOperations(r.posts)

is_asking_clarification(r) ==
    LET removeInText == r.sellOrRemove \/ r.verb \in {"sell", "remove"}
        addInText == r.add \/ r.verb = "add"
    IN  IF r.form \in {"verb", "specify", "would"}
        THEN [needed |-> TRUE, item |-> r.noun,
              action |-> IF r.form = "verb" /\ r.verb \in {"sell", "remove"}
                         THEN "remove"
                         ELSE IF removeInText THEN "remove" ELSE "add"]
        ELSE IF r.form = "generic" /\ r.noun \in Items
        THEN [needed |-> TRUE, item |-> r.noun,
              action |-> IF addInText THEN "add" ELSE "remove"]
        ELSE NoClarification

\* The reply of get_structured_operations as json.loads sees it.  json:
\* "invalid" (not JSON), "dict", "list" or "other" (a JSON scalar); entries:
\* the object itself for "dict", the elements for "list".  An entry is an
\* object (with operation_type, item, and change, which is an integer when
\* isInt) or not an object.
Entry(object, operation_type, item, change, isInt) ==
    [object |-> object, operation_type |-> operation_type, item |-> item,
     change |-> change, isInt |-> isInt]

StructuredReplies ==
    { [json |-> "invalid", entries |-> << >>],
      [json |-> "dict", entries |-> << Entry(TRUE, "update", "tshirts", 1, TRUE) >>],
      [json |-> "list",
       entries |-> << Entry(TRUE, "update", "pants", -1, TRUE),
                      Entry(TRUE, "update", "hats", 1, TRUE),
                      Entry(TRUE, "get", "none", 0, FALSE) >>] }

\* lines 560-570 and 574-584: what one object contributes
EntryOperations(e) ==
    IF e.operation_type = "get" THEN << Get >>
    ELSE IF e.operation_type = "update" /\ e.item \in Items /\ e.isInt
         THEN << Update(e.item, e.change) >>
         ELSE << >>

RECURSIVE ListOperations(_)
\* lines 573-584: op.get raises on an element that is not an object, which
\* ends the loop (line 585) with the operations appended so far
ListOperations(entries) ==
    IF entries = << >> THEN << >>
    ELSE IF ~entries[1].object THEN << >>
    ELSE EntryOperations(entries[1]) \o ListOperations(Tail(entries))

\* lines 553-586
ParseStructured(sr) ==
    IF sr.json = "dict" THEN EntryOperations(sr.entries[1])
    ELSE IF sr.json = "list" THEN ListOperations(sr.entries)
    ELSE << >>

\* ------------------------------------------------------------------ inventory service
InitialTshirts == 20
InitialPants == 15
DefaultTshirts == 20
DefaultPants == 15
InitialInventory == [i \in Items |-> IF i = "tshirts" THEN InitialTshirts ELSE InitialPants]
\* inventory.py line 47
DefaultInventory == [i \in Items |-> IF i = "tshirts" THEN DefaultTshirts ELSE DefaultPants]

\* variant: the check of lines 41-43 (new count below zero) is missing
update_inventory_unchecked(inv, item, change) ==
    IF item \notin DOMAIN inv THEN [ok |-> FALSE, inventory |-> inv]
    ELSE [ok |-> TRUE, inventory |-> [inv EXCEPT ![item] = inv[item] + change]]

\* InventoryManager.update_inventory: [ok, inventory]
update_inventory(inv, item, change) ==
    IF item \notin DOMAIN inv THEN [ok |-> FALSE, inventory |-> inv]
    ELSE IF inv[item] + change < 0 THEN [ok |-> FALSE, inventory |-> inv]
    ELSE [ok |-> TRUE, inventory |-> [inv EXCEPT ![item] = inv[item] + change]]

\* An event handed to lambda_handler.  httpMethod: "GET", "POST", another
\* method, or "none" (a direct invocation, whose item and change are keys of
\* the event itself).  body: "object" (a JSON object, or a dict), "invalid"
\* (a string that is no JSON), "array" (JSON, but no object) or "absent"
\* (neither a string nor a dict).  item: a name, or "missing" (no key, null
\* or empty).  change: an integer n (or a string of its digits), a
\* "fraction" (the number n + 1/2 for n >= 0, n - 1/2 for n < 0), a "text"
\* that int() refuses, or "missing".
Change(kind, n) == [kind |-> kind, n |-> n]
Request(httpMethod, body, item, change) ==
    [httpMethod |-> httpMethod, body |-> body, item |-> item, change |-> change]

\* int(change) at lines 73 and 113: << the integer >>, or << >> when it raises;
\* a float is truncated towards zero
IntOf(change) ==
    IF change.kind \in {"integer", "fraction"} THEN << change.n >> ELSE << >>

\* an error result leaves the counts alone (lines 75, 81, 84, 89)
ErrorResult(inv) == [error |-> TRUE, inventory |-> inv]
\* update_inventory called from process_request: its ValueError becomes an
\* error result (lines 74-75, 83-84)
UpdateResult(inv, item, change) ==
    LET r == update_inventory(inv, item, change)
    IN  [error |-> ~r.ok, inventory |-> r.inventory]

\* lines 62-66 with _parse_body and _validate_update_request
PostResult(inv, request) ==
    IF request.body = "invalid" THEN ErrorResult(inv)
    ELSE IF request.body = "array" THEN ErrorResult(inv)
    ELSE IF request.body = "absent" \/ request.item = "missing" THEN ErrorResult(inv)
    ELSE IF request.change.kind = "missing" THEN ErrorResult(inv)
    ELSE IF IntOf(request.change) = << >> THEN ErrorResult(inv)
    ELSE UpdateResult(inv, request.item, IntOf(request.change)[1])

\* lines 69-77: a direct invocation
DirectResult(inv, request) ==
    IF request.item # "missing" /\ request.change.kind # "missing"
    THEN IF IntOf(request.change) = << >> THEN ErrorResult(inv)
         ELSE UpdateResult(inv, request.item, IntOf(request.change)[1])
    ELSE [error |-> FALSE, inventory |-> inv]

\* InventoryManager.process_request: the result and the counts it leaves
process_request(inv, request) ==
    IF request.httpMethod = "GET" THEN [error |-> FALSE, inventory |-> inv]
    ELSE IF request.httpMethod = "POST" THEN PostResult(inv, request)
    ELSE IF request.httpMethod = "none" THEN DirectResult(inv, request)
    ELSE ErrorResult(inv)

\* lambda_handler lines 130-140
lambda_handler(inv, request) ==
    LET result == process_request(inv, request)
    IN  [statusCode |-> IF result.error THEN 400 ELSE 200, error |-> result.error,
         inventory |-> result.inventory]

\* ------------------------------------------------------------------ inventory client
\* InventoryClient.get_inventory, given what came back
get_inventory(resp) ==
    IF resp.status = "ok" THEN resp.inventory ELSE DefaultInventory

\* safe_update_inventory lines 106-112
ActualChange(change, current_qty) ==
    IF change < 0 /\ -change > current_qty THEN -current_qty ELSE change

\* safe_update_inventory lines 117-129: the inventory it returns
UpdatedInventory(resp, current_inventory, item, actual_change) ==
    IF resp.status = "ok" THEN resp.inventory
    ELSE IF item \in DOMAIN current_inventory
         THEN [current_inventory EXCEPT ![item] = current_inventory[item] + actual_change]
         ELSE current_inventory

\* ------------------------------------------------------------------ state
MaxTurns == 3        \* requests to /query in one behaviour
NumSlots == 2        \* coroutines of process_query the model holds
MaxFailures == 1     \* calls that fail (service unreachable, completion error)
MaxExternal == 1     \* requests other clients send to the inventory service

Slots == 1..NumSlots
\* Spec runs the requests one at a time
SeqSlots == {1}
ConvIds == {"default", "c1"}
\* Query.conversation_id: None, "" or an id
RequestIds == {"none", "", "c1"}
\* the ids Spec sends: "" takes the path of None at line 390, and is sent
\* under SpecShared
SeqRequestIds == {"none", "c1"}
\* line 390: query.conversation_id or "default"
ConversationId(rid) == IF rid \in {"none", ""} THEN "default" ELSE rid

Queries ==
    { << W("add"), W("some"), W("shirts") >>,
      << W("remove"), W("some"), W("pants") >>,
      << W("add"), W("some"), W("more"), W("shirts") >>,
      << Num(MaxQty) >>,
      << W("add"), Num(MaxQty), W("shirts") >>,
      << W("sold"), Num(BigQty), W("pants") >>,
      << W("sold"), Num(MaxQty), W("hats") >>,
      << Plus(MaxQty), W("shirts"), Minus(BigQty), W("pants") >>,
      << W("add"), Num(MaxQty), W("shirts"), W("and"), Num(1), W("hats") >>,
      << W("stock") >> }

VARIABLES
    inventory,            \* InventoryManager._inventory
    conversation_states,  \* main.py line 81; {} and a missing key are EmptyState
    turn,                 \* per slot: a process_query coroutine and its locals
    started,              \* requests started so far
    failures,             \* failed calls so far
    externals,            \* requests of other clients so far
    asked,                \* history: per conversation, the (item, action) pairs
                          \* recorded since the conversation was last idle
    fx                    \* a helper applied on its own: input and result

vars == << inventory, conversation_states, turn, started, failures, externals,
          asked, fx >>

NoInventory == [i \in Items |-> 0]
NoResp == [status |-> "none", inventory |-> NoInventory]
NoSu == [item |-> "none", change |-> 0, current_inventory |-> NoInventory,
         actual_change |-> 0]
\* what safe_update_inventory returned last (line 119 or 129), with its arguments
NoRet == [item |-> "none", change |-> 0, inventory |-> NoInventory,
          current_qty |-> 0, actual_change |-> 0]
NoPosted == [net |-> 0, counts |-> NoInventory]
NoReply == Reply(FALSE, << >>, "none", "none", "none", FALSE, FALSE)

(* A coroutine of process_query.  pc names the awaited inventory call      *)
(* ("start_get": line 394; "su_get", "su_upd": lines 105 and 117 of        *)
(* safe_update_inventory; "op_get": lines 483 and 592), phase says whether *)
(* the service has still to handle it ("req") or the answer is on its way  *)
(* back ("resp").  The calls of the completion model do not suspend (the   *)
(* client is synchronous).  applied and truth are history: the             *)
(* safe_update_inventory calls made so far, and the service's counts when  *)
(* it last handled a call of this coroutine; ret is what the last          *)
(* safe_update_inventory call returned; structured_calls counts the calls  *)
(* of get_structured_operations (line 550) and structured_call tells how   *)
(* the last one ended; inventory_errors counts the turn's calls of the     *)
(* inventory service that did not reach it or that it rejected; refreshes  *)
(* counts the get_inventory calls of the operation loops (lines 483 and    *)
(* 592) and refreshed is what the last of them returned; pending is the    *)
(* number of questions recorded for the conversation when line 391 read a  *)
(* pending one (0 when it read none): two coroutines that read the same    *)
(* stored question have the same number; posted is what the service did at *)
(* the last POST of the coroutine: the change of the item's count (0 when  *)
(* the POST was rejected or did not arrive) and its counts afterwards.     *)
(* request_id is Query.conversation_id as it was received.                 *)
IdleTurn ==
    [pc |-> "idle", phase |-> "none", resp |-> NoResp, text |-> << >>,
     conversation_id |-> "none", conversation_state |-> EmptyState,
     current_inventory |-> NoInventory, path |-> "none", operations |-> << >>,
     su |-> NoSu, ret |-> NoRet, llm |-> NoReply, applied |-> << >>,
     truth |-> NoInventory, status |-> "none", structured_calls |-> 0,
     structured_call |-> "none", inventory_errors |-> 0, refreshes |-> 0,
     refreshed |-> NoInventory, pending |-> 0, posted |-> NoPosted,
     request_id |-> "none"]

NoStructured == [json |-> "invalid", entries |-> << >>]
\* a CognitoAuth object: its tokens (0 is None), the time of its last
\* refresh, and whether username and password are set
CognitoAuth(id_token, refresh_token, last_refresh_time, credentials) ==
    [id_token |-> id_token, refresh_token |-> refresh_token,
     last_refresh_time |-> last_refresh_time, credentials |-> credentials]
\* a call of get_valid_token or full_auth_flow: the object before it, whether
\* a refresh was needed, how the refresh and the login ended ("none" when
\* not attempted), what full_auth_flow returned ("none" when not called)
\* and the token get_valid_token returned
NoCall == [op |-> "none", before |-> CognitoAuth(0, 0, 0, FALSE), needed |-> FALSE,
           refresh |-> "none", login |-> "none", flow |-> "none", ret |-> 0]
\* the object, the clock (time.time()), the tokens the identity provider
\* has issued, and the last call
NoAuth == [self |-> CognitoAuth(0, 0, 0, FALSE), now |-> 0, issued |-> 0,
           call |-> NoCall]
NoRequest == Request("none", "absent", "missing", Change("missing", 0))
NoResponse == [statusCode |-> 0, error |-> FALSE, inventory |-> NoInventory]
NoFx == [query |-> << >>, stage |-> "none", operations |-> << >>,
         clarification |-> NoClarification, conversation_state |-> EmptyState,
         structured |-> NoStructured, other |-> << >>, again |-> << >>,
         request |-> NoRequest, response |-> NoResponse, before |-> NoInventory,
         reply |-> NoReply, auth |-> NoAuth]

Init ==
    /\ inventory = InitialInventory
    /\ conversation_states = [c \in ConvIds |-> EmptyState]
    /\ turn = [s \in Slots |-> IdleTurn]
    /\ started = 0
    /\ failures = 0
    /\ externals = 0
    /\ asked = [c \in ConvIds |-> << >>]
    /\ fx = NoFx

\* ------------------------------------------------------------------ process_query
\* a response that is ready leaves before anything else happens
NoneDone == \A s \in Slots : turn[s].pc # "done"

\* variant: a request without an id starts from an empty state
Start_fresh_state(s, q, rid) ==
    /\ NoneDone
    /\ turn[s].pc = "idle"
    /\ \A r \in Slots : r < s => turn[r].pc # "idle"
    /\ started < MaxTurns
    /\ started' = started + 1
    /\ turn' = [turn EXCEPT ![s] =
                  [IdleTurn EXCEPT !.pc = "start_get", !.phase = "req", !.text = q,
                                   !.request_id = rid,
                                   !.conversation_id = ConversationId(rid),
                                   !.conversation_state =
                                       IF rid \in {"none", ""} THEN EmptyState
                                       ELSE conversation_states[ConversationId(rid)]]]
    /\ asked' = [c \in ConvIds |->
                    IF conversation_states[c].awaiting_clarification
                    THEN asked[c] ELSE << >>]
    /\ UNCHANGED << inventory, conversation_states, failures, externals, fx >>

\* lines 389-394
Start(s, q, rid) ==
    /\ NoneDone
    /\ turn[s].pc = "idle"
    /\ \A r \in Slots : r < s => turn[r].pc # "idle"
    /\ started < MaxTurns
    /\ started' = started + 1
    /\ turn' = [turn EXCEPT ![s] =
                  [IdleTurn EXCEPT !.pc = "start_get", !.phase = "req", !.text = q,
                                   !.request_id = rid,
                                   !.conversation_id = ConversationId(rid),
                                   !.conversation_state =
                                       conversation_states[ConversationId(rid)],
                                   !.pending =
                                       IF conversation_states[ConversationId(rid)]
                                              .awaiting_clarification
                                       THEN Len(asked[ConversationId(rid)])
                                       ELSE 0]]
    /\ asked' = [c \in ConvIds |->
                    IF conversation_states[c].awaiting_clarification
                    THEN asked[c] ELSE << >>]
    /\ UNCHANGED << inventory, conversation_states, failures, externals, fx >>

\* the service handles a GET (InventoryManager.get_inventory)
ServeGet(s) ==
    /\ NoneDone
    /\ turn[s].pc \in {"start_get", "su_get", "op_get"}
    /\ turn[s].phase = "req"
    /\ turn' = [turn EXCEPT ![s].phase = "resp",
                            ![s].resp = [status |-> "ok", inventory |-> inventory],
                            ![s].truth = inventory]
    /\ UNCHANGED << inventory, conversation_states, started, failures, externals, asked, fx >>

\* the service handles the POST of safe_update_inventory; a rejection is
\* the 400 that InventoryClient.update_inventory turns into ValueError
ServePost(s) ==
    /\ NoneDone
    /\ turn[s].pc = "su_upd"
    /\ turn[s].phase = "req"
    /\ LET r == update_inventory(inventory, turn[s].su.item, turn[s].su.actual_change)
       IN  /\ inventory' = r.inventory
           /\ turn' = [turn EXCEPT ![s].phase = "resp",
                                   ![s].resp =
                                       IF r.ok
                                       THEN [status |-> "ok", inventory |-> r.inventory]
                                       ELSE [status |-> "rejected", inventory |-> NoInventory],
                                   ![s].truth = r.inventory,
                                   ![s].inventory_errors = IF r.ok THEN @ ELSE @ + 1,
                                   ![s].posted =
                                       [net |-> IF r.ok THEN turn[s].su.actual_change
                                                ELSE 0,
                                        counts |-> r.inventory]]
    /\ UNCHANGED << conversation_states, started, failures, externals, asked, fx >>

\* the call does not reach the service: the httpx call raises
Unreachable(s) ==
    /\ NoneDone
    /\ turn[s].pc \in {"start_get", "su_get", "su_upd", "op_get"}
    /\ turn[s].phase = "req"
    /\ failures < MaxFailures
    /\ failures' = failures + 1
    /\ turn' = [turn EXCEPT ![s].phase = "resp",
                            ![s].resp = [status |-> "error", inventory |-> NoInventory],
                            ![s].truth = inventory,
                            ![s].inventory_errors = @ + 1,
                            ![s].posted =
                                IF turn[s].pc = "su_upd"
                                THEN [net |-> 0, counts |-> inventory]
                                ELSE @]
    /\ UNCHANGED << inventory, conversation_states, started, externals, asked, fx >>

\* the call of safe_update_inventory at lines 434, 487 and 596
BeginSafeUpdate(t, item, change, rest) ==
    [t EXCEPT !.pc = "su_get", !.phase = "req", !.resp = NoResp,
              !.operations = rest,
              !.su = [NoSu EXCEPT !.item = item, !.change = change],
              !.applied = Append(@, [item |-> item, change |-> change])]

\* the QueryResponse is returned
Finished(t) ==
    [t EXCEPT !.pc = "done", !.phase = "none", !.resp = NoResp, !.su = NoSu,
              !.status = "200"]

\* lines 642-646: HTTPException(500)
Failed(t) ==
    [t EXCEPT !.pc = "done", !.phase = "none", !.resp = NoResp, !.su = NoSu,
              !.status = "500"]

RECURSIVE Continue_no_refresh(_)
\* variant: a Get in the list is passed over without a call
Continue_no_refresh(t) ==
    IF t.operations = << >> THEN Finished(t)
    ELSE LET operation == Head(t.operations)
         IN  IF operation.operation_type = "get"
             THEN Continue_no_refresh([t EXCEPT !.operations = Tail(@)])
             ELSE BeginSafeUpdate(t, operation.item, operation.change,
                                  Tail(t.operations))

\* the loops at lines 480-489 and 589-598, up to the next awaited call
Continue(t) ==
    IF t.operations = << >> THEN Finished(t)
    ELSE LET operation == Head(t.operations)
         IN  IF operation.operation_type = "get"
             THEN [t EXCEPT !.pc = "op_get", !.phase = "req", !.resp = NoResp,
                            !.su = NoSu, !.operations = Tail(@)]
             ELSE BeginSafeUpdate(t, operation.item, operation.change,
                                  Tail(t.operations))

\* variant: the else branch of lines 612-614 is missing
StatesAfter_no_reset(new) ==
    IF new.pc # "done" \/ new.status # "200" THEN conversation_states
    ELSE IF new.path = "answer"
    THEN [conversation_states EXCEPT ![new.conversation_id] = EmptyState]
    ELSE IF new.path = "llm"
    THEN LET asking == is_asking_clarification(new.llm)
         IN  [conversation_states EXCEPT ![new.conversation_id] =
                 IF asking.needed /\ asking.item # "none"
                 THEN AwaitingState(asking.item, asking.action)
                 ELSE @]
    ELSE conversation_states

\* variant: the reset of line 452 clears the whole dictionary
StatesAfter_all_ids(new) ==
    IF new.pc # "done" \/ new.status # "200" THEN conversation_states
    ELSE IF new.path = "answer"
    THEN [c \in ConvIds |-> EmptyState]
    ELSE IF new.path = "llm"
    THEN LET asking == is_asking_clarification(new.llm)
         IN  [conversation_states EXCEPT ![new.conversation_id] =
                 IF asking.needed /\ asking.item # "none"
                 THEN AwaitingState(asking.item, asking.action)
                 ELSE EmptyState]
    ELSE conversation_states

\* conversation_states once the coroutine has run on to new: line 452 on
\* the answer path, lines 604-617 on the completion path
StatesAfter(new) ==
    IF new.pc # "done" \/ new.status # "200" THEN conversation_states
    ELSE IF new.path = "answer"
    THEN [conversation_states EXCEPT ![new.conversation_id] = EmptyState]
    ELSE IF new.path = "llm"
    THEN LET asking == is_asking_clarification(new.llm)
         IN  [conversation_states EXCEPT ![new.conversation_id] =
                 IF asking.needed /\ asking.item # "none"
                 THEN AwaitingState(asking.item, asking.action)
                 ELSE EmptyState]
    ELSE conversation_states

\* history: (item, action) is recorded for conversation c
Recorded(c, item, action) ==
    [asked EXCEPT ![c] =
        IF conversation_states[c].awaiting_clarification
        THEN Append(@, [item |-> item, action |-> action])
        ELSE << [item |-> item, action |-> action] >>]

\* history: asked once the coroutine has run on to new
AskedAfter(new) ==
    LET asking == is_asking_clarification(new.llm)
    IN  IF /\ new.pc = "done" /\ new.status = "200" /\ new.path = "llm"
           /\ asking.needed /\ asking.item # "none"
        THEN Recorded(new.conversation_id, asking.item, asking.action)
        ELSE asked

AtStart(s) == NoneDone /\ turn[s].pc = "start_get" /\ turn[s].phase = "resp"

\* line 394 returned
Started(s) == [turn[s] EXCEPT !.current_inventory = get_inventory(turn[s].resp)]

\* variant: a text the extractor understands is not taken as an answer
ClarificationOperation_extraction_first(t) ==
    IF t.conversation_state.awaiting_clarification
       /\ extract_operations_from_query(t.text) = << >>
    THEN handle_clarification_response(t.text, t.conversation_state)
    ELSE << >>

\* lines 424-429: the operation of the answer, << >> when there is none
ClarificationOperation(t) ==
    IF t.conversation_state.awaiting_clarification
    THEN handle_clarification_response(t.text, t.conversation_state)
    ELSE << >>

\* variant: a question already pending is kept, the new one is dropped
AskClarification_keep(s) ==
    /\ AtStart(s)
    /\ LET nqc == needs_quantity_clarification(turn[s].text)
           c == turn[s].conversation_id
       IN  /\ nqc.needed /\ nqc.item # "none" /\ nqc.action # "none"
           /\ conversation_states' =
                  [conversation_states EXCEPT ![c] =
                      IF @.awaiting_clarification THEN @
                      ELSE AwaitingState(nqc.item, nqc.action)]
           /\ asked' = Recorded(c, nqc.item, nqc.action)
           /\ turn' = [turn EXCEPT ![s] = Finished([Started(s) EXCEPT !.path = "clarify"])]
    /\ UNCHANGED << inventory, started, failures, externals, fx >>

\* lines 397-422
AskClarification(s) ==
    /\ AtStart(s)
    /\ LET nqc == needs_quantity_clarification(turn[s].text)
       IN  /\ nqc.needed /\ nqc.item # "none" /\ nqc.action # "none"
           /\ conversation_states' =
                  [conversation_states EXCEPT ![turn[s].conversation_id] =
                      AwaitingState(nqc.item, nqc.action)]
           /\ asked' = Recorded(turn[s].conversation_id, nqc.item, nqc.action)
           /\ turn' = [turn EXCEPT ![s] = Finished([Started(s) EXCEPT !.path = "clarify"])]
    /\ UNCHANGED << inventory, started, failures, externals, fx >>

\* lines 424-436
AnswerClarification(s) ==
    /\ AtStart(s)
    /\ ~needs_quantity_clarification(turn[s].text).needed
    /\ ClarificationOperation(turn[s]) # << >>
    /\ LET operation == ClarificationOperation(turn[s])[1]
       IN  turn' = [turn EXCEPT ![s] =
                       BeginSafeUpdate([Started(s) EXCEPT !.path = "answer"],
                                       operation.item, operation.change, << >>)]
    /\ UNCHANGED << inventory, conversation_states, started, failures, externals, asked, fx >>

\* the request reaches line 462
AtExtraction(s) ==
    /\ AtStart(s)
    /\ ~needs_quantity_clarification(turn[s].text).needed
    /\ ClarificationOperation(turn[s]) = << >>

\* variant: an unknown item is answered with an error
UnknownItemReply_error(s) ==
    /\ AtExtraction(s)
    /\ \E i \in 1..Len(extract_operations_from_query(turn[s].text)) :
          extract_operations_from_query(turn[s].text)[i].operation_type = "unknown_item"
    /\ turn' = [turn EXCEPT ![s] = Failed([Started(s) EXCEPT !.path = "unknown"])]
    /\ UNCHANGED << inventory, conversation_states, started, failures, externals, asked, fx >>

\* lines 466-477
UnknownItemReply(s) ==
    /\ AtExtraction(s)
    /\ \E i \in 1..Len(extract_operations_from_query(turn[s].text)) :
          extract_operations_from_query(turn[s].text)[i].operation_type = "unknown_item"
    /\ turn' = [turn EXCEPT ![s] = Finished([Started(s) EXCEPT !.path = "unknown"])]
    /\ UNCHANGED << inventory, conversation_states, started, failures, externals, asked, fx >>

\* lines 463-489, up to the first awaited call
DirectOperations(s) ==
    /\ AtExtraction(s)
    /\ LET direct_operations == extract_operations_from_query(turn[s].text)
       IN  /\ direct_operations # << >>
           /\ \A i \in 1..Len(direct_operations) :
                 direct_operations[i].operation_type # "unknown_item"
           /\ turn' = [turn EXCEPT ![s] =
                          Continue([Started(s) EXCEPT !.path = "direct",
                                                      !.operations = direct_operations])]
    /\ UNCHANGED << inventory, conversation_states, started, failures, externals, asked, fx >>

AtCompletion(s) ==
    /\ AtExtraction(s)
    /\ extract_operations_from_query(turn[s].text) = << >>

\* variant: the text is not searched for an action keyword
NeedsStructured_any_text(q, reply) ==
    extract_operations_from_llm_response(reply) = << >>

\* line 548
NeedsStructured(q, reply) ==
    extract_operations_from_llm_response(reply) = << >> /\ HasActionKeyword(q)

\* lines 540-598 when the structured call is not made
Completion(s, reply) ==
    /\ AtCompletion(s)
    /\ ~NeedsStructured(turn[s].text, reply)
    /\ LET new == Continue([Started(s) EXCEPT
                               !.path = "llm", !.llm = reply,
                               !.operations = extract_operations_from_llm_response(reply)])
       IN  /\ turn' = [turn EXCEPT ![s] = new]
           /\ conversation_states' = StatesAfter(new)
           /\ asked' = AskedAfter(new)
    /\ UNCHANGED << inventory, started, failures, externals, fx >>

\* lines 540-598 with the structured call
StructuredCompletion(s, reply, sr) ==
    /\ AtCompletion(s)
    /\ NeedsStructured(turn[s].text, reply)
    /\ LET new == Continue([Started(s) EXCEPT
                               !.path = "llm", !.llm = reply,
                               !.structured_calls = @ + 1,
                               !.structured_call = "returned",
                               !.operations = ParseStructured(sr)])
       IN  /\ turn' = [turn EXCEPT ![s] = new]
           /\ conversation_states' = StatesAfter(new)
           /\ asked' = AskedAfter(new)
    /\ UNCHANGED << inventory, started, failures, externals, fx >>

\* llm_service.process_query raises (line 540)
CompletionFails(s) ==
    /\ AtCompletion(s)
    /\ failures < MaxFailures
    /\ failures' = failures + 1
    /\ turn' = [turn EXCEPT ![s] = Failed([Started(s) EXCEPT !.path = "llm"])]
    /\ UNCHANGED << inventory, conversation_states, started, externals, asked, fx >>

\* llm_service.get_structured_operations raises (line 550)
StructuredFails(s, reply) ==
    /\ AtCompletion(s)
    /\ NeedsStructured(turn[s].text, reply)
    /\ failures < MaxFailures
    /\ failures' = failures + 1
    /\ turn' = [turn EXCEPT ![s] = Failed([Started(s) EXCEPT
                                              !.path = "llm", !.llm = reply,
                                              !.structured_calls = @ + 1,
                                              !.structured_call = "raised"])]
    /\ UNCHANGED << inventory, conversation_states, started, externals, asked, fx >>

\* safe_update_inventory lines 105-117
ResumeSafeUpdateGet(s) ==
    /\ NoneDone
    /\ turn[s].pc = "su_get"
    /\ turn[s].phase = "resp"
    /\ LET current_inventory == get_inventory(turn[s].resp)
           current_qty == current_inventory[turn[s].su.item]
       IN  turn' = [turn EXCEPT ![s].pc = "su_upd", ![s].phase = "req",
                                ![s].resp = NoResp,
                                ![s].su.current_inventory = current_inventory,
                                ![s].su.actual_change =
                                    ActualChange(turn[s].su.change, current_qty)]
    /\ UNCHANGED << inventory, conversation_states, started, failures, externals, asked, fx >>

\* safe_update_inventory lines 117-129, then its caller up to the next call
ResumeSafeUpdatePost(s) ==
    /\ NoneDone
    /\ turn[s].pc = "su_upd"
    /\ turn[s].phase = "resp"
    /\ LET t == turn[s]
           updated_inventory == UpdatedInventory(t.resp, t.su.current_inventory,
                                                 t.su.item, t.su.actual_change)
           new == Continue([t EXCEPT
                              !.current_inventory = updated_inventory,
                              !.ret = [item |-> t.su.item, change |-> t.su.change,
                                       inventory |-> updated_inventory,
                                       current_qty |-> t.su.current_inventory[t.su.item],
                                       actual_change |-> t.su.actual_change]])
       IN  /\ turn' = [turn EXCEPT ![s] = new]
           /\ conversation_states' = StatesAfter(new)
           /\ asked' = AskedAfter(new)
    /\ UNCHANGED << inventory, started, failures, externals, fx >>

\* lines 483 and 592 returned
ResumeGet(s) ==
    /\ NoneDone
    /\ turn[s].pc = "op_get"
    /\ turn[s].phase = "resp"
    /\ LET new == Continue([turn[s] EXCEPT
                               !.current_inventory = get_inventory(turn[s].resp),
                               !.refreshes = @ + 1,
                               !.refreshed = get_inventory(turn[s].resp)])
       IN  /\ turn' = [turn EXCEPT ![s] = new]
           /\ conversation_states' = StatesAfter(new)
           /\ asked' = AskedAfter(new)
    /\ UNCHANGED << inventory, started, failures, externals, fx >>

\* the response has left; nothing of the coroutine remains
Return(s) ==
    /\ turn[s].pc = "done"
    /\ turn' = [turn EXCEPT ![s] = IdleTurn]
    /\ UNCHANGED << inventory, conversation_states, started, failures, externals, asked, fx >>

\* ------------------------------------------------------------------ the reply
Magnitude(n) == IF n < 0 THEN -n ELSE n

\* lines 439-446, 499-506 and 513-523: "I've <added|removed> <n> <item>"
Confirmation(quantity, operation) ==
    [action_display |-> IF operation.change > 0 THEN "added" ELSE "removed",
     quantity |-> quantity, item |-> operation.item]

\* line 492
update_operations(operations) ==
    SelectSeq(operations, LAMBDA op : op.operation_type = "update")

\* variant: the message states what safe_update_inventory applied
user_message_applied(t) ==
    IF t.path = "answer"
    THEN << Confirmation(Magnitude(t.ret.actual_change), ClarificationOperation(t)[1]) >>
    ELSE IF t.path = "direct"
    THEN LET updates == update_operations(extract_operations_from_query(t.text))
         IN  [i \in 1..Len(updates) |->
                 Confirmation(IF i = Len(updates) THEN Magnitude(t.ret.actual_change)
                              ELSE Magnitude(updates[i].change), updates[i])]
    ELSE << >>

\* the confirmations in the output of a turn that is returning: lines 438-449
\* on the answer path, lines 491-525 on the direct path (none for a Get alone)
user_message(t) ==
    IF t.path = "answer"
    THEN << Confirmation(Magnitude(ClarificationOperation(t)[1].change),
                         ClarificationOperation(t)[1]) >>
    ELSE IF t.path = "direct"
    THEN LET updates == update_operations(extract_operations_from_query(t.text))
         IN  [i \in 1..Len(updates) |->
                 Confirmation(Magnitude(updates[i].change), updates[i])]
    ELSE << >>

\* ------------------------------------------------------------------ other clients
ExternalItems == {"pants", "hats"}
ExternalChanges == {-BigQty, 1}

\* another client's POST {"item": .., "change": ..} to the service
\* (process_request lines 62-66)
ExternalPost(item, change) ==
    /\ NoneDone
    /\ externals < MaxExternal
    /\ externals' = externals + 1
    /\ inventory' = update_inventory(inventory, item, change).inventory
    /\ UNCHANGED << conversation_states, turn, started, failures, asked, fx >>

Next ==
    \/ \E s \in SeqSlots, q \in Queries, rid \in SeqRequestIds : Start(s, q, rid)
    \/ \E s \in SeqSlots : ServeGet(s)
    \/ \E s \in SeqSlots : ServePost(s)
    \/ \E s \in SeqSlots : Unreachable(s)
    \/ \E s \in SeqSlots : AskClarification(s)
    \/ \E s \in SeqSlots : AnswerClarification(s)
    \/ \E s \in SeqSlots : UnknownItemReply(s)
    \/ \E s \in SeqSlots : DirectOperations(s)
    \/ \E s \in SeqSlots, reply \in LLMReplies : Completion(s, reply)
    \/ \E s \in SeqSlots, reply \in LLMReplies, sr \in StructuredReplies :
          StructuredCompletion(s, reply, sr)
    \/ \E s \in SeqSlots : CompletionFails(s)
    \/ \E s \in SeqSlots, reply \in LLMReplies : StructuredFails(s, reply)
    \/ \E s \in SeqSlots : ResumeSafeUpdateGet(s)
    \/ \E s \in SeqSlots : ResumeSafeUpdatePost(s)
    \/ \E s \in SeqSlots : ResumeGet(s)
    \/ \E s \in SeqSlots : Return(s)
    \/ \E item \in ExternalItems, change \in ExternalChanges : ExternalPost(item, change)

Spec == Init /\ [][Next]_vars

\* ------------------------------------------------------------------ requests in flight together
\* The coroutines of two requests interleave at the awaited inventory calls
\* (lines 394, 434, 483, 487, 592 and 596 of main.py; lines 105 and 117 of
\* inventory.py); the inventory service is reachable and has no other client.
ConcurrentQueries ==
    { << W("add"), W("some"), W("shirts") >>,
      << Num(MaxQty) >>,
      << W("sold"), Num(BigQty), W("pants") >>,
      << W("stock") >> }
ConcurrentIds == {"none", "c1"}

NextConcurrent ==
    \/ \E s \in Slots, q \in ConcurrentQueries, rid \in ConcurrentIds : Start(s, q, rid)
    \/ \E s \in Slots : ServeGet(s)
    \/ \E s \in Slots : ServePost(s)
    \/ \E s \in Slots : AskClarification(s)
    \/ \E s \in Slots : AnswerClarification(s)
    \/ \E s \in Slots : DirectOperations(s)
    \/ \E s \in Slots, reply \in LLMReplies : Completion(s, reply)
    \/ \E s \in Slots : CompletionFails(s)
    \/ \E s \in Slots : ResumeSafeUpdateGet(s)
    \/ \E s \in Slots : ResumeSafeUpdatePost(s)
    \/ \E s \in Slots : ResumeGet(s)
    \/ \E s \in Slots : Return(s)

SpecConcurrent == Init /\ [][NextConcurrent]_vars

\* ------------------------------------------------------------------ requests without an id
\* Requests that carry None, "" or an id, one at a time; ui.py sends none
\* (line 13: json={"text": message}) and offers "How many t-shirts do we
\* have?" as an example (line 29).
SharedQueries ==
    { << W("add"), W("some"), W("shirts") >>,
      << W("remove"), W("some"), W("pants") >>,
      << Num(MaxQty) >>,
      << W("add"), Num(MaxQty), W("shirts") >>,
      << W("stock"), W("t-shirts") >> }

NextShared ==
    \/ \E s \in SeqSlots, q \in SharedQueries, rid \in RequestIds : Start(s, q, rid)
    \/ \E s \in SeqSlots : ServeGet(s)
    \/ \E s \in SeqSlots : ServePost(s)
    \/ \E s \in SeqSlots : AskClarification(s)
    \/ \E s \in SeqSlots : AnswerClarification(s)
    \/ \E s \in SeqSlots : DirectOperations(s)
    \/ \E s \in SeqSlots, reply \in LLMReplies : Completion(s, reply)
    \/ \E s \in SeqSlots : ResumeSafeUpdateGet(s)
    \/ \E s \in SeqSlots : ResumeSafeUpdatePost(s)
    \/ \E s \in SeqSlots : ResumeGet(s)
    \/ \E s \in SeqSlots : Return(s)

SpecShared == Init /\ [][NextShared]_vars

\* ------------------------------------------------------------------ CognitoAuth
RefreshAge == 3500   \* seconds after which get_valid_token refreshes
MaxClock == 7001     \* the clock stops here
MaxIssued == 2       \* tokens the identity provider issues in one behaviour
\* the clock moves by the age that is still accepted, or by one second more
Durations == {RefreshAge, RefreshAge + 1}

\* The outcomes of the calls a flow makes.  refresh: the POST of lines 69-80
\* answers 200 with an IdToken ("issued"), answers otherwise ("denied") or
\* raises; login: initiate_auth returns both tokens ("issued"), not both
\* ("incomplete") or raises; persist_refresh, persist_login: os.environ and
\* set_key store the tokens ("written") or raise (lines 92-95 and 149-154).
Outcomes ==
    [refresh : {"issued", "denied", "raises"},
     persist_refresh : {"written", "raises"},
     login : {"issued", "incomplete", "raises"},
     persist_login : {"written", "raises"}]

\* the token the provider issues after n others (1 is the configured one)
FreshToken(n) == n + 2

\* lines 55-107 (client_id and endpoint are set: line 203): [self, ok, issued]
refresh_token_if_needed(self, now, issued, o) ==
    IF self.refresh_token = 0 THEN [self |-> self, ok |-> FALSE, issued |-> issued]
    ELSE IF o.refresh = "issued"
    THEN [self |-> [self EXCEPT !.id_token = FreshToken(issued),
                                !.last_refresh_time = now],
          ok |-> o.persist_refresh = "written", issued |-> issued + 1]
    ELSE [self |-> self, ok |-> FALSE, issued |-> issued]

\* lines 109-163: [self, ok, issued]
get_new_tokens(self, now, issued, o) ==
    IF ~self.credentials THEN [self |-> self, ok |-> FALSE, issued |-> issued]
    ELSE IF o.login = "issued"
    THEN [self |-> [self EXCEPT !.id_token = FreshToken(issued),
                                !.refresh_token = FreshToken(issued),
                                !.last_refresh_time = now],
          ok |-> o.persist_login = "written", issued |-> issued + 1]
    ELSE [self |-> self, ok |-> FALSE, issued |-> issued]

Ended(ok) == IF ok THEN "succeeded" ELSE "failed"

\* lines 165-184: [self, ok, issued, refresh, login]
full_auth_flow(self, now, issued, o) ==
    LET tried == self.refresh_token # 0
        r == IF tried THEN refresh_token_if_needed(self, now, issued, o)
             ELSE [self |-> self, ok |-> FALSE, issued |-> issued]
        refresh == IF tried THEN Ended(r.ok) ELSE "none"
    IN  IF r.ok
        THEN [self |-> r.self, ok |-> TRUE, issued |-> r.issued,
              refresh |-> refresh, login |-> "none"]
        ELSE IF r.self.credentials
        THEN LET g == get_new_tokens(r.self, now, r.issued, o)
             IN  [self |-> g.self, ok |-> g.ok, issued |-> g.issued,
                  refresh |-> refresh, login |-> Ended(g.ok)]
        ELSE [self |-> r.self, ok |-> FALSE, issued |-> r.issued,
              refresh |-> refresh, login |-> "none"]

\* line 50
NeedsRefresh(self, now) ==
    self.id_token = 0 \/ now - self.last_refresh_time > RefreshAge

\* lines 41-53: [self, issued, call]
get_valid_token(self, now, issued, o) ==
    IF NeedsRefresh(self, now)
    THEN LET f == full_auth_flow(self, now, issued, o)
         IN  [self |-> f.self, issued |-> f.issued,
              call |-> [op |-> "get_valid_token", before |-> self, needed |-> TRUE,
                        refresh |-> f.refresh, login |-> f.login,
                        flow |-> Ended(f.ok), ret |-> f.self.id_token]]
    ELSE [self |-> self, issued |-> issued,
          call |-> [op |-> "get_valid_token", before |-> self, needed |-> FALSE,
                    refresh |-> "none", login |-> "none", flow |-> "none",
                    ret |-> self.id_token]]

\* lines 31-39 (initialize_auth, lines 196-211): the token of the environment
\* or none, the configured refresh token or none, credentials or none
InitAuth ==
    /\ inventory = InitialInventory
    /\ conversation_states = [c \in ConvIds |-> EmptyState]
    /\ turn = [s \in Slots |-> IdleTurn]
    /\ started = 0
    /\ failures = 0
    /\ externals = 0
    /\ asked = [c \in ConvIds |-> << >>]
    /\ fx \in {[NoFx EXCEPT !.stage = "auth",
                            !.auth = [NoAuth EXCEPT !.self =
                                CognitoAuth(id_token, refresh_token, 0, credentials)]] :
                   id_token \in {0, 1}, refresh_token \in {0, 1},
                   credentials \in BOOLEAN}

\* time passes
Elapse(d) ==
    /\ fx.stage = "auth"
    /\ fx.auth.now + d <= MaxClock
    /\ fx' = [fx EXCEPT !.auth.now = @ + d]
    /\ UNCHANGED << inventory, conversation_states, turn, started, failures, externals,
                    asked >>

\* get_auth_header line 226: cognito_auth.get_valid_token()
CallGetValidToken(o) ==
    /\ fx.stage = "auth"
    /\ LET g == get_valid_token(fx.auth.self, fx.auth.now, fx.auth.issued, o)
       IN  /\ g.issued <= MaxIssued
           /\ fx' = [fx EXCEPT !.auth.self = g.self, !.auth.issued = g.issued,
                               !.auth.call = g.call]
    /\ UNCHANGED << inventory, conversation_states, turn, started, failures, externals,
                    asked >>

\* initialize_auth line 214: cognito_auth.full_auth_flow()
CallFullAuthFlow(o) ==
    /\ fx.stage = "auth"
    /\ LET f == full_auth_flow(fx.auth.self, fx.auth.now, fx.auth.issued, o)
       IN  /\ f.issued <= MaxIssued
           /\ fx' = [fx EXCEPT !.auth.self = f.self, !.auth.issued = f.issued,
                               !.auth.call =
                                   [op |-> "full_auth_flow", before |-> fx.auth.self,
                                    needed |-> NeedsRefresh(fx.auth.self, fx.auth.now),
                                    refresh |-> f.refresh, login |-> f.login,
                                    flow |-> Ended(f.ok), ret |-> 0]]
    /\ UNCHANGED << inventory, conversation_states, turn, started, failures, externals,
                    asked >>

NextAuth ==
    \/ \E d \in Durations : Elapse(d)
    \/ \E o \in Outcomes : CallGetValidToken(o)
    \/ \E o \in Outcomes : CallFullAuthFlow(o)

SpecAuth == InitAuth /\ [][NextAuth]_vars

\* ------------------------------------------------------------------ the helpers on their own
\* every text of at most MaxLen tokens
ShortTexts == UNION {[1..m -> Vocab] : m \in 0..MaxLen}

PhraseVerbs == {"add", "remove", "sold", "bought"}
PhraseNouns == {"shirts", "t-shirts", "pants", "hats"}
NumericToks == [k : NumericKinds, n : Quantities]
\* [verb] number noun
Phrases ==
    {<< t, W(noun) >> : t \in NumericToks, noun \in PhraseNouns}
    \cup {<< W(v), t, W(noun) >> : v \in PhraseVerbs, t \in NumericToks, noun \in PhraseNouns}
\* two phrases joined by "and" or by a comma
CompoundTexts ==
    {p[1] \o << W(sep) >> \o p[2] : p \in Phrases \X Phrases, sep \in {"and", ","}}

\* two phrases in one segment
SegmentTexts == {p[1] \o p[2] : p \in Phrases \X Phrases}

Texts == ShortTexts \cup CompoundTexts \cup SegmentTexts

MaxAnswerLen == 2    \* length of the texts given to handle_clarification_response
MaxEntries == 3      \* elements of a structured reply that is an array

\* conversation states, also ones process_query never stores
ResolverStates ==
    [awaiting_clarification : BOOLEAN, item : Items \cup {"none"},
     action : {"add", "remove", "none"}]

\* elements of a JSON array: a get, valid updates, an update of an unknown
\* item, an update whose change is no integer, an object of another shape,
\* and an element that is no object
EntryKinds ==
    { Entry(TRUE, "get", "none", 0, FALSE),
      Entry(TRUE, "update", "tshirts", 1, TRUE),
      Entry(TRUE, "update", "pants", -1, TRUE),
      Entry(TRUE, "update", "hats", 1, TRUE),
      Entry(TRUE, "update", "tshirts", 1, FALSE),
      Entry(TRUE, "other", "none", 0, FALSE),
      Entry(FALSE, "none", "none", 0, FALSE) }

StructuredInputs ==
    {[json |-> "list", entries |-> e] :
        e \in UNION {[1..m -> EntryKinds] : m \in 0..MaxEntries}}
    \cup {[json |-> "dict", entries |-> << e >>] : e \in {k \in EntryKinds : k.object}}
    \cup {[json |-> "invalid", entries |-> << >>], [json |-> "other", entries |-> << >>]}

\* cleaned replies of the completion model: every form of question, with
\* every noun and verb the patterns of lines 312-319 accept, and with or
\* without "sell"/"remove" and "add" elsewhere in the text
QuestionVerbs == {"sell", "add", "remove", "buy"}
AskingReplies ==
    {Reply(FALSE, << >>, "verb", noun, verb, sellOrRemove, add) :
        noun \in Items, verb \in QuestionVerbs, sellOrRemove \in BOOLEAN,
        add \in BOOLEAN}
    \cup {Reply(FALSE, << >>, form, noun, "none", sellOrRemove, add) :
        form \in {"specify", "would", "generic", "none"},
        noun \in Items \cup {"none"}, sellOrRemove \in BOOLEAN, add \in BOOLEAN}
\* what the caller sends after the question
AnswerTexts == {<< Num(n) >> : n \in Quantities} \cup {<< W("stock") >>}

InitExtract ==
    /\ inventory = InitialInventory
    /\ conversation_states = [c \in ConvIds |-> EmptyState]
    /\ turn = [s \in Slots |-> IdleTurn]
    /\ started = 0
    /\ failures = 0
    /\ externals = 0
    /\ asked = [c \in ConvIds |-> << >>]
    /\ fx \in {[NoFx EXCEPT !.query = q, !.stage = "input"] : q \in Texts}
              \cup {[NoFx EXCEPT !.structured = sr, !.stage = "json"] :
                       sr \in StructuredInputs}
              \cup {[NoFx EXCEPT !.reply = reply, !.stage = "reply"] :
                       reply \in AskingReplies}

\* extract_operations_from_query(query)
RunExtract ==
    /\ fx.stage = "input"
    /\ fx' = [fx EXCEPT !.stage = "extracted",
                        !.operations = extract_operations_from_query(fx.query)]
    /\ UNCHANGED << inventory, conversation_states, turn, started, failures, externals,
                    asked >>

\* needs_quantity_clarification(query)
RunClarification ==
    /\ fx.stage = "input"
    /\ fx' = [fx EXCEPT !.stage = "checked",
                        !.clarification = needs_quantity_clarification(fx.query)]
    /\ UNCHANGED << inventory, conversation_states, turn, started, failures, externals,
                    asked >>

\* handle_clarification_response(query, conversation_state)
RunResolve(conversation_state) ==
    /\ fx.stage = "input"
    /\ Len(fx.query) <= MaxAnswerLen
    /\ fx' = [fx EXCEPT !.stage = "resolved",
                        !.conversation_state = conversation_state,
                        !.operations =
                            handle_clarification_response(fx.query, conversation_state)]
    /\ UNCHANGED << inventory, conversation_states, turn, started, failures, externals,
                    asked >>

\* main.py lines 553-586 on a structured reply
RunParse ==
    /\ fx.stage = "json"
    /\ fx' = [fx EXCEPT !.stage = "parsed", !.operations = ParseStructured(fx.structured)]
    /\ UNCHANGED << inventory, conversation_states, turn, started, failures, externals,
                    asked >>

\* lines 604-617 on a cleaned reply: the state process_query stores
RunAsking ==
    /\ fx.stage = "reply"
    /\ LET asking == is_asking_clarification(fx.reply)
       IN  fx' = [fx EXCEPT !.stage = "asked", !.clarification = asking,
                            !.conversation_state =
                                IF asking.needed /\ asking.item # "none"
                                THEN AwaitingState(asking.item, asking.action)
                                ELSE EmptyState]
    /\ UNCHANGED << inventory, conversation_states, turn, started, failures, externals,
                    asked >>

\* lines 424-426 of the next turn: the answer is resolved against that state
RunAnswer(q) ==
    /\ fx.stage = "asked"
    /\ fx' = [fx EXCEPT !.stage = "answered", !.query = q,
                        !.operations =
                            handle_clarification_response(q, fx.conversation_state)]
    /\ UNCHANGED << inventory, conversation_states, turn, started, failures, externals,
                    asked >>

\* texts extracted between two calls on the same text
OtherTexts ==
    { << W("add"), Num(1), W("shirts") >>,
      << Minus(1), W("pants"), W(","), Plus(1), W("shirts") >> }

\* extract_operations_from_query(query), then on another text, then on
\* query again
RunExtractAgain(other) ==
    /\ fx.stage = "input"
    /\ LET first == ExtractCall([operations |-> << >>, processed |-> {},
                                 patterns_found |-> FALSE], fx.query)
           between == ExtractCall(first.left, other)
           second == ExtractCall(between.left, fx.query)
       IN  fx' = [fx EXCEPT !.stage = "repeated", !.operations = first.operations,
                            !.other = other, !.again = second.operations]
    /\ UNCHANGED << inventory, conversation_states, turn, started, failures, externals,
                    asked >>

\* ------------------------------------------------------------------ the inventory service alone
MaxRequests == 2     \* events the service handles in one behaviour
ServiceChanges ==
    {Change("integer", n) : n \in {-BigQty, -1, 1}}
    \cup {Change("fraction", 1), Change("text", 0), Change("missing", 0)}
ServiceRequests ==
    {Request(m, b, i, c) : m \in {"GET", "POST", "DELETE", "none"},
                           b \in {"object", "invalid", "array", "absent"},
                           i \in {"tshirts", "pants", "hats", "missing"},
                           c \in ServiceChanges}

InitService ==
    /\ inventory = InitialInventory
    /\ conversation_states = [c \in ConvIds |-> EmptyState]
    /\ turn = [s \in Slots |-> IdleTurn]
    /\ started = 0
    /\ failures = 0
    /\ externals = 0
    /\ asked = [c \in ConvIds |-> << >>]
    /\ fx = [NoFx EXCEPT !.stage = "service"]

\* lambda_handler(event, context)
HandleRequest(request) ==
    /\ fx.stage \in {"service", "served"}
    /\ externals < MaxRequests
    /\ externals' = externals + 1
    /\ inventory' = lambda_handler(inventory, request).inventory
    /\ fx' = [fx EXCEPT !.stage = "served", !.request = request,
                        !.response = lambda_handler(inventory, request),
                        !.before = inventory]
    /\ UNCHANGED << conversation_states, turn, started, failures, asked >>

NextService == \E request \in ServiceRequests : HandleRequest(request)

SpecService == InitService /\ [][NextService]_vars

NextExtract ==
    \/ RunExtract
    \/ RunClarification
    \/ \E other \in OtherTexts : RunExtractAgain(other)
    \/ \E conversation_state \in ResolverStates : RunResolve(conversation_state)
    \/ RunParse
    \/ RunAsking
    \/ \E q \in AnswerTexts : RunAnswer(q)

SpecExtract == InitExtract /\ [][NextExtract]_vars

\* ------------------------------------------------------------------ properties: the extractor
KnownNouns == ShirtNouns \cup PantsNouns
ItemOf(noun) == IF noun \in ShirtNouns THEN "tshirts" ELSE "pants"
Extracted == fx.stage = "extracted"
Updates(operations) == SelectSeq(operations, LAMBDA o : o.operation_type = "update")

\* C4: the text "add N shirts and M pants" yields exactly the two Updates
\* (tshirts, +N) and (pants, +M), followed by a Get.
C4_CompoundRequest ==
    \A n \in Quantities, m \in Quantities :
        (/\ Extracted
         /\ fx.query = << W("add"), Num(n), W("shirts"), W("and"), Num(m), W("pants") >>)
        => fx.operations = << Update("tshirts", n), Update("pants", m), Get >>

\* a number written right before a disallowed item noun
NumberBeforeUnknown(q) ==
    \E i \in 1..(Len(q) - 1) : IsNumeric(q[i]) /\ q[i + 1].k \in UnknownNouns
\* a text answered as a pure inventory check (line 205-207)
PureInventoryCheck(q) == IsInventoryCheck(q) /\ ~HasActionOrSymbol(q)

\* C5: when a number precedes a disallowed item noun and the text is not
\* answered as a pure inventory check, the result is exactly << UnknownItem >>,
\* whatever else the text asks for.
C5_UnknownItemFirst ==
    (Extracted /\ NumberBeforeUnknown(fx.query) /\ ~PureInventoryCheck(fx.query))
    => fx.operations = << UnknownItem >>

\* the text also holds a well-formed request for a known item
C5_Witness ==
    /\ Extracted
    /\ fx.query = << W("add"), Num(1), W("shirts"), W("and"), Num(1), W("hats") >>
    /\ fx.operations = << UnknownItem >>

\* token i is +N or -N and the next token is a known item keyword
SymbolBeforeItem(q, i) ==
    i < Len(q) /\ q[i].k \in {"plus", "minus"} /\ q[i + 1].k \in KnownNouns
SignedChange(t) == IF t.k = "plus" THEN t.n ELSE -t.n

\* C10 as stated: a text with +N or -N next to a known item keyword yields
\* exactly one Update, whose change is +N or -N.
C10_OneUpdate ==
    Extracted =>
        \A i \in 1..Len(fx.query) :
            SymbolBeforeItem(fx.query, i)
            => Updates(fx.operations)
                   = << Update(ItemOf(fx.query[i + 1].k), SignedChange(fx.query[i])) >>

\* C10 amended: when no number precedes a disallowed item noun, each +N or -N
\* written right before a known item keyword yields exactly one Update of
\* that item by +N or -N (other phrases of the text may add Updates).
C10_OneUpdatePerPhrase ==
    (Extracted /\ ~HasUnknownItem(fx.query)) =>
        \A i \in 1..Len(fx.query) :
            SymbolBeforeItem(fx.query, i)
            => Cardinality({j \in 1..Len(fx.operations) :
                               fx.operations[j] = Update(ItemOf(fx.query[i + 1].k),
                                                         SignedChange(fx.query[i]))}) = 1

\* a compound text: two symbol phrases, two Updates
C10_Witness ==
    /\ Extracted
    /\ ~HasUnknownItem(fx.query)
    /\ \E i \in 1..Len(fx.query) :
          SymbolBeforeItem(fx.query, i) /\ fx.query[i].k = "minus"
    /\ Len(Updates(fx.operations)) = 2

\* ------------------------------------------------------------------ properties: process_query
\* the response of the coroutine in slot s is ready
Done(s) == turn[s].pc = "done"
SignedQuantity(action, n) == IF action = "add" THEN n ELSE -n

\* the request arrives while its conversation awaits a quantity, holds an
\* integer and is not itself a request without quantity
AnswersClarification(t) ==
    /\ t.conversation_state.awaiting_clarification
    /\ FirstInteger(t.text) # << >>
    /\ ~needs_quantity_clarification(t.text).needed

\* C1: a turn that arrives in the awaiting state for (item, action) with an
\* integer N applies exactly one Update, of the pending item by +N for add
\* and -N for remove, and leaves the conversation's state empty.
C1_AnswerResolved ==
    \A s \in Slots :
        (Done(s) /\ AnswersClarification(turn[s])) =>
            LET t == turn[s]
            IN  /\ t.status = "200"
                /\ t.applied =
                       << [item |-> t.conversation_state.item,
                           change |-> SignedQuantity(t.conversation_state.action,
                                                     FirstInteger(t.text)[1])] >>
                /\ conversation_states[t.conversation_id] = EmptyState

\* a pending removal is answered and the service has applied it
C1_Witness ==
    \E s \in Slots :
        /\ Done(s) /\ AnswersClarification(turn[s])
        /\ turn[s].conversation_state.action = "remove"
        /\ turn[s].ret.actual_change < 0
        /\ inventory[turn[s].ret.item] < InitialInventory[turn[s].ret.item]

RECURSIVE FillersThenItem(_, _, _)
\* from token j on: the words "some" and "more", then a keyword of item
FillersThenItem(q, j, item) ==
    IF j > Len(q) THEN FALSE
    ELSE IF q[j].k \in KnownNouns THEN ItemOf(q[j].k) = item
    ELSE IF q[j].k \in {"some", "more"} THEN FillersThenItem(q, j + 1, item)
    ELSE FALSE

\* the text names an action and, after it, a known item
NamesActionAndItem(q, item, action) ==
    \E i \in 1..Len(q) :
        /\ q[i].k \in (IF action = "add" THEN {"add"} ELSE {"remove", "sold"})
        /\ FillersThenItem(q, i + 1, item)

\* C2: a text that names an action and a known item and holds no digit is
\* answered with a question: the conversation awaits a quantity for that
\* item and action, and no Update is applied in the turn.
C2_QuantityLessRequest ==
    \A s \in Slots, item \in Items, action \in {"add", "remove"} :
        (/\ Done(s)
         /\ ~HasDigit(turn[s].text)
         /\ NamesActionAndItem(turn[s].text, item, action))
        => /\ turn[s].path = "clarify"
           /\ needs_quantity_clarification(turn[s].text)
                  = [needed |-> TRUE, item |-> item, action |-> action]
           /\ conversation_states[turn[s].conversation_id] = AwaitingState(item, action)
           /\ turn[s].applied = << >>

\* the turn ends with a question to the user
EntersClarification(t) ==
    \/ t.path = "clarify"
    \/ t.path = "llm" /\ is_asking_clarification(t.llm).needed

\* C3: a turn that answers normally and does not enter clarification mode
\* leaves its conversation's state empty.
C3_IdleAfterTurn ==
    \A s \in Slots :
        (Done(s) /\ turn[s].status = "200" /\ ~EntersClarification(turn[s]))
        => conversation_states[turn[s].conversation_id] = EmptyState

\* C6: what safe_update_inventory(item, change) returns, c being the count it
\* read: when change < 0 and -change > c the applied delta is -c and the
\* item's count in the returned snapshot is 0; otherwise the applied delta is
\* change; the returned count is never below zero.
C6_SafeUpdateContract ==
    \A s \in Slots :
        turn[s].ret.item # "none" =>
            LET r == turn[s].ret
            IN  /\ (r.change < 0 /\ -r.change > r.current_qty)
                    => (r.actual_change = -r.current_qty /\ r.inventory[r.item] = 0)
                /\ ~(r.change < 0 /\ -r.change > r.current_qty)
                    => r.actual_change = r.change
                /\ r.inventory[r.item] >= 0

\* C7: the service's counts are non-negative integers and its items are
\* exactly tshirts and pants, whatever requests it has handled.
C7_NonNegativeCounts ==
    /\ DOMAIN inventory = Items
    /\ \A i \in Items : inventory[i] \in Nat

\* the service has rejected an update, and has applied others
C7_Witness ==
    /\ \E s \in Slots : turn[s].resp.status = "rejected"
    /\ inventory # InitialInventory

\* C8: the counts a normal reply shows are the service's counts after the
\* turn's operations (truth: the counts when the service last handled a call
\* of the turn).
C8_ShownCounts ==
    \A s \in Slots :
        (Done(s) /\ turn[s].status = "200")
        => turn[s].current_inventory = turn[s].truth

\* C9: a conversation holds one pending (item, action), the one recorded
\* last: a question asked while another is pending replaces it, and the
\* integer that follows yields exactly one Update, for the last one recorded.
C9_LatestPending ==
    \A s \in Slots :
        Done(s) =>
            LET t == turn[s]
                h == asked[t.conversation_id]
                nqc == needs_quantity_clarification(t.text)
            IN  /\ t.path = "clarify"
                    => /\ h # << >>
                       /\ h[Len(h)] = [item |-> nqc.item, action |-> nqc.action]
                       /\ conversation_states[t.conversation_id]
                              = AwaitingState(nqc.item, nqc.action)
                /\ t.path = "answer"
                    => /\ h # << >>
                       /\ t.applied =
                              << [item |-> h[Len(h)].item,
                                  change |-> SignedQuantity(h[Len(h)].action,
                                                            FirstInteger(t.text)[1])] >>

\* two different questions were recorded before the integer arrived
C9_Witness ==
    \E s \in Slots :
        /\ Done(s) /\ turn[s].path = "answer"
        /\ Len(asked[turn[s].conversation_id]) >= 2
        /\ asked[turn[s].conversation_id][1] # asked[turn[s].conversation_id][2]

\* ------------------------------------------------------------------ properties: the shapes of the extractor's result
\* one or more Updates followed by a single Get
UpdatesThenGet(operations) ==
    /\ Len(operations) >= 2
    /\ operations[Len(operations)] = Get
    /\ \A i \in 1..(Len(operations) - 1) : operations[i].operation_type = "update"

\* C11: the result of extract_operations_from_query is the empty list, [Get],
\* [UnknownItem], or one or more Updates followed by a single Get as the last
\* element; so whenever an Update was extracted the list ends with one Get.
C11_ResultShape ==
    Extracted =>
        \/ fx.operations \in {<< >>, << Get >>, << UnknownItem >>}
        \/ UpdatesThenGet(fx.operations)

\* two Updates, then the Get
C11_Witness ==
    /\ Extracted
    /\ Len(Updates(fx.operations)) = 2
    /\ Len(fx.operations) = 3
    /\ fx.operations[3] = Get

\* an action verb of line 206, or a token written with a "+" or a "-"
ActionVerbs == {"add", "remove", "sold", "bought"}
HasSignCharacter(q) ==
    \E i \in 1..Len(q) : q[i].k \in {"plus", "minus", "t-shirts"}
HasActionVerb(q) == \E i \in 1..Len(q) : q[i].k \in ActionVerbs

\* C12: a text that matches the inventory-check vocabulary and holds no
\* action verb, no "+" and no "-" yields exactly [Get], whatever its segments
\* hold and even when a number precedes a disallowed item.
C12_InventoryCheckOnly ==
    (/\ Extracted
     /\ IsInventoryCheck(fx.query)
     /\ ~HasActionVerb(fx.query)
     /\ ~HasSignCharacter(fx.query))
    => fx.operations = << Get >>

\* an inventory check that also names a quantity of a disallowed item
C12_Witness ==
    /\ Extracted
    /\ IsInventoryCheck(fx.query)
    /\ ~HasActionVerb(fx.query)
    /\ ~HasSignCharacter(fx.query)
    /\ HasUnknownItem(fx.query)
    /\ fx.operations = << Get >>

\* ------------------------------------------------------------------ properties: patterns within a segment
\* the text is one segment: the split of line 218 finds no separator
SingleSegment(q) == Segments(q) = << q >>
UpdatesOf(operations, item) ==
    SelectSeq(operations, LAMBDA o : o.operation_type = "update" /\ o.item = item)
\* the signed quantities the patterns of lines 226-247 find for an item in a
\* segment, every pattern and every match counted
PatternChanges(seg, item) ==
    LET pats == IF item = "tshirts" THEN shirt_patterns ELSE pants_patterns
    IN  UNION {{FindIter(seg, 1, pats[i])[k] * pats[i].multiplier :
                   k \in 1..Len(FindIter(seg, 1, pats[i]))} : i \in 1..Len(pats)}

\* C13 as stated: a single segment yields at most one Update per known item.
C13_FirstPatternWins ==
    (Extracted /\ SingleSegment(fx.query)) =>
        \A item \in Items : Len(UpdatesOf(fx.operations, item)) <= 1

\* C13 amended: within one segment every pattern is applied; the Updates of an
\* item are exactly the distinct signed quantities its patterns match, each
\* once, so a later pattern contributes nothing only when its match repeats an
\* (item, signed quantity) pair already produced.
C13_AllPatternsApply ==
    (/\ Extracted
     /\ SingleSegment(fx.query)
     /\ ~PureInventoryCheck(fx.query)
     /\ ~HasUnknownItem(fx.query)
     /\ \E item \in Items : PatternChanges(fx.query, item) # {})
    => \A item \in Items :
          /\ {UpdatesOf(fx.operations, item)[j].change :
                 j \in 1..Len(UpdatesOf(fx.operations, item))}
             = PatternChanges(fx.query, item)
          /\ Len(UpdatesOf(fx.operations, item))
             = Cardinality(PatternChanges(fx.query, item))

\* one segment, two patterns of the same item, two Updates of that item
C13_Witness ==
    /\ Extracted
    /\ SingleSegment(fx.query)
    /\ ~HasUnknownItem(fx.query)
    /\ Len(UpdatesOf(fx.operations, "tshirts")) = 2

\* ------------------------------------------------------------------ properties: the composite key
\* C14: the result never holds two Updates with the same item and the same
\* signed change, also when the mentions stand in different segments.
C14_NoRepeatedUpdate ==
    Extracted =>
        \A i \in 1..Len(fx.operations), j \in 1..Len(fx.operations) :
            (/\ i < j
             /\ fx.operations[i].operation_type = "update"
             /\ fx.operations[j].operation_type = "update")
            => fx.operations[i] # fx.operations[j]

\* the same phrase in two segments, one Update
C14_Witness ==
    /\ Extracted
    /\ \E phrase \in Phrases, sep \in {"and", ","} :
          fx.query = phrase \o << W(sep) >> \o phrase
    /\ Len(Updates(fx.operations)) = 1

\* ------------------------------------------------------------------ properties: sign and quantity of an Update
\* the verbs of the generated texts, by the direction of their patterns
AddTypeVerbs == {"add", "bought", "get"}
RemoveTypeVerbs == {"remove", "sold"}
\* token i of the segment is a "+N" or an add-type verb followed by the number
\* N and change = +N, or a "-N" or a remove-type verb followed by N and
\* change = -N
TriggeredBy(seg, i, change) ==
    \/ seg[i].k = "plus" /\ change = seg[i].n
    \/ seg[i].k = "minus" /\ change = -seg[i].n
    \/ /\ seg[i].k \in AddTypeVerbs \cup RemoveTypeVerbs
       /\ i < Len(seg)
       /\ seg[i + 1].k = "num"
       /\ change = (IF seg[i].k \in AddTypeVerbs THEN 1 ELSE -1) * seg[i + 1].n
WrittenIn(q) == {q[i].n : i \in {j \in 1..Len(q) : IsNumeric(q[j])}}
NoOperations == [operations |-> << >>, processed |-> {}, patterns_found |-> FALSE]

\* C15: every Update of the extractor has change = s * N for a number N and
\* a verb or symbol of direction s written in one segment of the text, and a
\* segment without a digit yields no Update; every Update of the resolver has
\* change = +N (pending add) or -N (pending remove) for a number N written
\* in the answer.
C15_SignedQuantity ==
    /\ Extracted =>
          /\ \A j \in 1..Len(fx.operations) :
                fx.operations[j].operation_type = "update"
                => /\ fx.operations[j].item \in Items
                   /\ \E k \in 1..Len(Segments(fx.query)) :
                         \E i \in 1..Len(Segments(fx.query)[k]) :
                             TriggeredBy(Segments(fx.query)[k], i,
                                         fx.operations[j].change)
          /\ \A k \in 1..Len(Segments(fx.query)) :
                ~HasDigit(Segments(fx.query)[k])
                => ProcessSegment(NoOperations, Segments(fx.query)[k]).operations = << >>
    /\ fx.stage = "resolved" =>
          \A j \in 1..Len(fx.operations) :
              /\ fx.operations[j].operation_type = "update"
              /\ fx.operations[j].item = fx.conversation_state.item
              /\ fx.conversation_state.action \in {"add", "remove"}
              /\ \E n \in WrittenIn(fx.query) :
                    fx.operations[j].change
                        = SignedQuantity(fx.conversation_state.action, n)

\* a remove-type verb with a number: an Update with a negative change
C15_Witness ==
    /\ Extracted
    /\ \E i \in 1..Len(fx.query) : fx.query[i].k = "sold"
    /\ \E j \in 1..Len(fx.operations) :
          fx.operations[j].operation_type = "update" /\ fx.operations[j].change < 0

\* ------------------------------------------------------------------ properties: clarification and extraction
\* C16: on every text for which needs_quantity_clarification returns true,
\* extract_operations_from_query returns the empty list.
C16_ClarificationOnlyWhenEmpty ==
    (fx.stage = "checked" /\ fx.clarification.needed)
    => extract_operations_from_query(fx.query) = << >>

\* ------------------------------------------------------------------ properties: a text that answers no question
\* the three cases in which the resolver has nothing to resolve
NothingToResolve(q, conversation_state) ==
    \/ ~conversation_state.awaiting_clarification
    \/ WrittenIn(q) = {}
    \/ conversation_state.item = "none"
    \/ conversation_state.action = "none"
ExtractionPaths == {"unknown", "direct", "llm"}

\* C17: when the state is not awaiting, the text holds no integer, or the
\* state lacks item or action, handle_clarification_response returns no
\* operation; a turn in that case (and without a quantity-less request) goes
\* on to extraction: the step from line 394 leaves the inventory alone, takes
\* one of the extraction paths, hands safe_update_inventory nothing but an
\* operation of the extractor or of the completion reply, and the
\* conversation's state changes only through lines 603-617 at the end of the
\* completion path.
C17_NoOperationProceeds ==
    [][\A s \in Slots :
          (/\ AtStart(s)
           /\ turn'[s] # turn[s]
           /\ ~needs_quantity_clarification(turn[s].text).needed
           /\ NothingToResolve(turn[s].text, turn[s].conversation_state))
          => /\ \A conversation_state \in ResolverStates :
                   NothingToResolve(turn[s].text, conversation_state)
                   => handle_clarification_response(turn[s].text, conversation_state)
                          = << >>
             /\ handle_clarification_response(turn[s].text, turn[s].conversation_state)
                    = << >>
             /\ turn'[s].path \in ExtractionPaths
             /\ inventory' = inventory
             /\ \A j \in 1..Len(turn'[s].applied) :
                   \/ turn'[s].path = "llm"
                   \/ \E k \in 1..Len(extract_operations_from_query(turn[s].text)) :
                         LET o == extract_operations_from_query(turn[s].text)[k]
                         IN  /\ o.operation_type = "update"
                             /\ o.item = turn'[s].applied[j].item
                             /\ o.change = turn'[s].applied[j].change
             /\ conversation_states' # conversation_states
                => turn'[s].path = "llm" /\ turn'[s].pc = "done"]_vars

\* a conversation awaits a quantity, the text holds none, and the turn has
\* taken an extraction path
C17_Witness ==
    \E s \in Slots :
        /\ turn[s].conversation_state.awaiting_clarification
        /\ WrittenIn(turn[s].text) = {}
        /\ ~needs_quantity_clarification(turn[s].text).needed
        /\ turn[s].path \in ExtractionPaths

\* ------------------------------------------------------------------ properties: the structured-extraction call
\* one of the words add, sell, sold, remove, bought
ActionKeywords == {"add", "sell", "sold", "remove", "bought"}
NamesActionKeyword(q) == \E i \in 1..Len(q) : q[i].k \in ActionKeywords

\* C18: a turn calls get_structured_operations at most once, and only when
\* extract_operations_from_query returned nothing for its text and the text
\* holds one of the action keywords.
C18_StructuredCallOnce ==
    \A s \in Slots :
        /\ turn[s].structured_calls <= 1
        /\ turn[s].structured_calls >= 1
           => /\ extract_operations_from_query(turn[s].text) = << >>
              /\ NamesActionKeyword(turn[s].text)

\* a turn has made the call and received a reply
C18_Witness ==
    \E s \in Slots :
        /\ turn[s].structured_calls = 1
        /\ turn[s].structured_call = "returned"
        /\ NamesActionKeyword(turn[s].text)

\* a get entry, or an update entry of a known item with an integer change
IsValidEntry(e) ==
    /\ e.object
    /\ \/ e.operation_type = "get"
       \/ e.operation_type = "update" /\ e.item \in Items /\ e.isInt
OperationOf(e) == IF e.operation_type = "get" THEN Get ELSE Update(e.item, e.change)

\* C19: the operations taken from a reply that is a JSON array are exactly
\* its valid entries, in order; an invalid entry affects no other entry.
C19_ValidEntriesKept ==
    (fx.stage = "parsed" /\ fx.structured.json = "list")
    => LET valid == SelectSeq(fx.structured.entries, IsValidEntry)
       IN  fx.operations = [j \in 1..Len(valid) |-> OperationOf(valid[j])]

\* C20: a turn whose structured-extraction call failed applies no operation
\* and answers normally.
C20_StructuredFailureAbsorbed ==
    \A s \in Slots :
        (Done(s) /\ turn[s].structured_call = "raised")
        => turn[s].status = "200" /\ turn[s].applied = << >>

\* ------------------------------------------------------------------ properties: failures of the inventory service
\* C21: a turn during which a call of the inventory service was not answered
\* or was rejected ends with an error to the caller, not with a normal reply.
C21_InventoryFailureSurfaces ==
    \A s \in Slots :
        (Done(s) /\ turn[s].inventory_errors > 0) => turn[s].status = "500"

\* ------------------------------------------------------------------ properties: the state after the completion path
\* the cleaned reply asks for a quantity of tshirts or pants
AsksQuantity(reply) == reply.form # "none" /\ reply.noun \in Items
\* the turn in slot s went through lines 540-640 and returns its reply
CompletionTurn(s) == Done(s) /\ turn[s].path = "llm" /\ turn[s].status = "200"

\* C22: when a turn of the completion path returns, the conversation's state
\* is awaiting, with the item and action is_asking_clarification finds in
\* the reply, exactly when the reply asks for a quantity of a known item;
\* otherwise it is the empty state.
C22_StateAfterCompletion ==
    \A s \in Slots :
        CompletionTurn(s) =>
            LET asking == is_asking_clarification(turn[s].llm)
                state == conversation_states[turn[s].conversation_id]
            IN  /\ state.awaiting_clarification <=> AsksQuantity(turn[s].llm)
                /\ AsksQuantity(turn[s].llm)
                   => state = AwaitingState(asking.item, asking.action)
                /\ ~AsksQuantity(turn[s].llm) => state = EmptyState

\* a pending question is dropped by a completion turn whose reply asks nothing
C22_Witness ==
    \E s \in Slots :
        /\ CompletionTurn(s)
        /\ turn[s].conversation_state.awaiting_clarification
        /\ ~AsksQuantity(turn[s].llm)
        /\ conversation_states[turn[s].conversation_id] = EmptyState

\* ------------------------------------------------------------------ properties: the direct path
\* the Updates the extractor finds in the text, as (item, change) pairs
ExtractedChanges(q) ==
    LET updates == Updates(extract_operations_from_query(q))
    IN  [j \in 1..Len(updates) |->
            [item |-> updates[j].item, change |-> updates[j].change]]
\* the turn in slot s took the branch of lines 479-537 with Updates to apply
DirectUpdateTurn(s) ==
    /\ Done(s)
    /\ turn[s].path = "direct"
    /\ ExtractedChanges(turn[s].text) # << >>

\* C23: a turn whose direct extraction yields Updates hands each of them to
\* safe_update_inventory once, in list order, then calls get_inventory once;
\* the counts of its reply are the ones that call returned, and they are the
\* service's counts at that call when no call of the turn failed.
C23_DirectUpdatesApplied ==
    \A s \in Slots :
        DirectUpdateTurn(s) =>
            /\ turn[s].applied = ExtractedChanges(turn[s].text)
            /\ turn[s].refreshes = 1
            /\ turn[s].status = "200"
            /\ turn[s].current_inventory = turn[s].refreshed
            /\ turn[s].inventory_errors = 0
               => turn[s].current_inventory = turn[s].truth

\* two Updates of one text, both applied
C23_Witness ==
    \E s \in Slots :
        /\ DirectUpdateTurn(s)
        /\ Len(turn[s].applied) = 2
        /\ turn[s].applied[1].item = "tshirts"
        /\ turn[s].applied[2].item = "pants"
        /\ turn[s].inventory_errors = 0

\* ------------------------------------------------------------------ properties: repeated extraction
\* C24: a second call of extract_operations_from_query on the same text
\* returns the list the first call returned, whatever text was extracted in
\* between, and both are the function's value on the text.
C24_RepeatedExtraction ==
    fx.stage = "repeated"
    => /\ fx.again = fx.operations
       /\ fx.operations = extract_operations_from_query(fx.query)

\* the text in between yields an Update that the repeated text yields too
C24_Witness ==
    /\ fx.stage = "repeated"
    /\ Updates(fx.again) # << >>
    /\ \E j \in 1..Len(fx.again) :
          fx.again[j] \in {extract_operations_from_query(fx.other)[k] :
                              k \in 1..Len(extract_operations_from_query(fx.other))}
          /\ fx.again[j].operation_type = "update"

\* ------------------------------------------------------------------ properties: the inventory service
\* a POST the service is to reject: invalid JSON, missing item or change,
\* unknown item, a change that is no integer, a count that would fall below
\* zero
RejectedPost(request, inv) ==
    /\ request.httpMethod = "POST"
    /\ \/ request.body = "invalid"
       \/ request.item = "missing"
       \/ request.change.kind \in {"missing", "text", "fraction"}
       \/ request.item \notin Items
       \/ inv[request.item] + request.change.n < 0
UnsupportedMethod(request) == request.httpMethod \notin {"GET", "POST", "none"}

\* C25: every rejected request returns an error with status 400 and leaves
\* every count unchanged; an accepted update returns 200 and changes only the
\* named item's count, by exactly the requested change.
C25_ServiceRequests ==
    fx.stage = "served" =>
        /\ (RejectedPost(fx.request, fx.before) \/ UnsupportedMethod(fx.request))
           => fx.response.statusCode = 400
        /\ fx.response.statusCode = 400 => inventory = fx.before
        /\ (fx.response.statusCode = 200 /\ inventory # fx.before)
           => /\ fx.request.change.kind = "integer"
              /\ fx.request.item \in Items
              /\ inventory = [fx.before EXCEPT ![fx.request.item] =
                                                   @ + fx.request.change.n]

\* ------------------------------------------------------------------ properties: an answer that is also a request
\* the turn in slot s started while its conversation awaited a quantity,
\* with a text that holds an integer and that the extractor alone would
\* turn into operations
RequestWhileAwaiting(s) ==
    /\ Done(s)
    /\ turn[s].conversation_state.awaiting_clarification
    /\ WrittenIn(turn[s].text) # {}
    /\ extract_operations_from_query(turn[s].text) # << >>

\* C26: while (item, action) is pending, a text with an integer N is taken
\* as the answer even when it is a complete request of its own: the turn
\* applies exactly one Update, of the pending item by +N or -N for the first
\* integer N, and nothing extracted from the text.
C26_AnswerBeforeExtraction ==
    \A s \in Slots :
        RequestWhileAwaiting(s) =>
            /\ turn[s].path = "answer"
            /\ turn[s].applied =
                   << [item |-> turn[s].conversation_state.item,
                       change |-> SignedQuantity(turn[s].conversation_state.action,
                                                 FirstInteger(turn[s].text)[1])] >>
            /\ turn[s].refreshes = 0

\* the text asks for another item, or an unknown one, than the pending one
C26_Witness ==
    \E s \in Slots :
        /\ RequestWhileAwaiting(s)
        /\ turn[s].conversation_state.item = "tshirts"
        /\ turn[s].conversation_state.action = "add"
        /\ turn[s].text = << W("sold"), Num(BigQty), W("pants") >>
        /\ turn[s].applied = << [item |-> "tshirts", change |-> BigQty] >>

\* ------------------------------------------------------------------ properties: an unknown item
\* the turn in slot s returns from the branch of lines 467-477
UnknownItemTurn(s) == Done(s) /\ turn[s].path = "unknown"

AnswersPending(s) ==
    /\ turn[s].path = "answer"
    /\ turn[s].conversation_state.awaiting_clarification
    /\ turn[s].applied # << >>

\* C28: a pending question is consumed at most once: no two requests of one
\* conversation apply an Update for the same stored question, also when both
\* carry an integer and are in flight together.
C28_PendingConsumedOnce ==
    \A s1, s2 \in Slots :
        (/\ s1 # s2
         /\ turn[s1].conversation_id = turn[s2].conversation_id
         /\ turn[s1].pending = turn[s2].pending
         /\ AnswersPending(s1))
        => ~AnswersPending(s2)

\* ------------------------------------------------------------------ C29
\* a call of safe_update_inventory has returned to the coroutine and the
\* next one has not yet been answered
SafeUpdateReturned(s) ==
    /\ turn[s].ret.item # "none"
    /\ ~(turn[s].pc = "su_upd" /\ turn[s].phase = "resp")

\* C29: conservation under interleaving: the applied delta each call of
\* safe_update_inventory reports is the change the service made to the
\* item's count for that call (so the reported deltas of any set of calls sum
\* to the net change of the count), and the snapshot it returns is the
\* service's counts at the moment its update was applied.
C29_Conservation ==
    \A s \in Slots :
        SafeUpdateReturned(s)
        => /\ turn[s].ret.actual_change = turn[s].posted.net
           /\ turn[s].ret.inventory = turn[s].posted.counts

\* ------------------------------------------------------------------ C30
\* the coroutine in slot s takes the step
Steps(s) == turn'[s] # turn[s]

\* C30: conversation isolation: a request with conversation id A reads the
\* state stored under A (line 391) and writes only that one (lines 403, 452,
\* 609 and 617); the state stored under any other id is unchanged by its
\* steps, whatever the path and the interleaving.
C30_ConversationIsolation ==
    [][\A s \in Slots :
          Steps(s) =>
              /\ (turn[s].pc = "idle")
                     => turn'[s].conversation_state =
                            conversation_states[turn'[s].conversation_id]
              /\ \A c \in ConvIds :
                     conversation_states'[c] # conversation_states[c]
                     => (turn[s].pc # "idle" /\ turn[s].conversation_id = c)]_vars

\* a request has reset the state of its conversation (line 452 or 617) while
\* a request of another conversation, whose question is still pending, is in
\* flight
C30_Witness ==
    \E s1, s2 \in Slots :
        /\ Done(s1) /\ turn[s1].path \in {"answer", "llm"} /\ turn[s1].status = "200"
        /\ turn[s2].pc \notin {"idle", "done"}
        /\ turn[s2].conversation_id # turn[s1].conversation_id
        /\ conversation_states[turn[s2].conversation_id].awaiting_clarification
        /\ conversation_states[turn[s1].conversation_id] = EmptyState

\* ------------------------------------------------------------------ C31
\* the Updates handed to safe_update_inventory during the turn
AppliedUpdates(s) == turn[s].applied

\* C31: a turn that ends with the conversation awaiting clarification has
\* changed nothing: whether the question came from the request (line 403) or
\* from the reply of the completion model (line 609), no Update was applied
\* during the turn.
C31_AwaitingTurnAppliesNothing ==
    \A s \in Slots :
        (/\ Done(s) /\ turn[s].status = "200"
         /\ conversation_states[turn[s].conversation_id].awaiting_clarification)
        => AppliedUpdates(s) = << >>

\* ------------------------------------------------------------------ C32
\* the turn returns a reply built by process_query itself after Updates
ConfirmingTurn(s) ==
    /\ Done(s) /\ turn[s].status = "200"
    /\ turn[s].path \in {"answer", "direct"}
    /\ turn[s].applied # << >>

\* the last call of safe_update_inventory was clamped
Clamped(r) == r.change < 0 /\ -r.change > r.current_qty

\* C32: the confirmation states the requested magnitude of each Update, not
\* the applied delta: after a clamped removal it still names the full
\* requested quantity, more than was posted, while the counts shown are the
\* ones the clamped call returned (or the refresh after it).
C32_MessageStatesRequest ==
    \A s \in Slots :
        ConfirmingTurn(s) =>
            LET t == turn[s]
                message == user_message(t)
                last == Len(t.applied)
            IN  /\ Len(message) = Len(t.applied)
                /\ \A i \in 1..Len(message) :
                      /\ message[i].item = t.applied[i].item
                      /\ message[i].quantity = Magnitude(t.applied[i].change)
                      /\ message[i].action_display = "added" <=> t.applied[i].change > 0
                /\ Clamped(t.ret)
                   => /\ message[last].quantity = -t.ret.change
                      /\ message[last].quantity > Magnitude(t.ret.actual_change)
                      /\ t.posted.net \in {0, t.ret.actual_change}
                      /\ t.current_inventory =
                             IF t.refreshes > 0 THEN t.refreshed ELSE t.ret.inventory

\* a removal of more than the stock has been confirmed
C32_Witness ==
    \E s \in Slots :
        /\ ConfirmingTurn(s)
        /\ Clamped(turn[s].ret)
        /\ turn[s].posted.net = turn[s].ret.actual_change
        /\ turn[s].ret.actual_change # 0

\* ------------------------------------------------------------------ C33
\* the direction the verb of the question names
VerbAction(verb) == IF verb \in {"add", "buy"} THEN "add" ELSE "remove"

\* C33: when the question found by is_asking_clarification names its verb,
\* the pending action follows that verb (add for add and buy, remove for sell
\* and remove) whatever other verb the reply contains, and the integer sent
\* next changes the stock in that direction.
C33_ActionFollowsVerb ==
    (fx.stage \in {"asked", "answered"} /\ fx.reply.form = "verb")
    => /\ fx.clarification.needed
       /\ fx.clarification.item = fx.reply.noun
       /\ fx.clarification.action = VerbAction(fx.reply.verb)
       /\ (fx.stage = "answered" /\ HasDigit(fx.query))
          => fx.operations =
                 << Update(fx.reply.noun,
                           SignedQuantity(VerbAction(fx.reply.verb),
                                          FirstInteger(fx.query)[1])) >>

\* ------------------------------------------------------------------ C34
\* Query.conversation_id is None or empty
WithoutId(t) == t.request_id \in {"none", ""}

\* C34: every request without a conversation id (None or "") uses the one
\* shared id "default": it starts from the state stored under "default", so
\* a question opened by one such request is pending for the next one; a
\* question it opens is stored under "default"; and its response carries
\* conversation_id "default".
C34_SharedDefault ==
    [][\A s \in Slots :
          (Steps(s) /\ turn'[s].pc # "idle" /\ WithoutId(turn'[s]))
          => /\ turn'[s].conversation_id = "default"
             /\ (turn[s].pc = "idle")
                    => turn'[s].conversation_state = conversation_states["default"]
             /\ (turn'[s].pc = "done" /\ turn'[s].path = "clarify")
                    => conversation_states'["default"].awaiting_clarification
             /\ (turn'[s].pc = "done" /\ turn'[s].path = "answer")
                    => turn'[s].conversation_state.awaiting_clarification]_vars

\* a request with an empty id has answered the question pending under
\* "default"
C34_Witness ==
    \E s \in Slots :
        /\ Done(s) /\ turn[s].request_id = "" /\ turn[s].path = "answer"
        /\ turn[s].conversation_id = "default"
        /\ turn[s].conversation_state.awaiting_clarification
        /\ turn[s].applied # << >>

\* ------------------------------------------------------------------ C35
\* an inventory-check question with a hyphen and no digit (the tokens with a
\* '-' and no digit are the "t-shirts")
HyphenQuestion(q) ==
    /\ IsInventoryCheck(q)
    /\ \E i \in 1..Len(q) : q[i].k = "t-shirts"
    /\ ~HasDigit(q)
    /\ ~needs_quantity_clarification(q).needed

C36_NoneWhenRefreshFails ==
    LET call == fx.auth.call
    IN  (call.op = "get_valid_token" /\ call.needed /\ call.flow = "failed")
        => call.ret = 0

\* ------------------------------------------------------------------ C37
\* full_auth_flow has run, on its own or inside get_valid_token
FlowRan(call) == call.op # "none" /\ call.flow # "none"

\* C37: full_auth_flow tries the username/password login only when no
\* refresh token is set or the refresh failed; it returns true exactly when
\* one of the two attempts succeeded; a flow that fails leaves id_token,
\* refresh_token and last_refresh_time as they were; and get_valid_token
\* starts the flow whenever a refresh is needed.
C37_FailedFlowChangesNothing ==
    LET call == fx.auth.call
    IN  /\ FlowRan(call)
           => /\ call.login # "none"
                 => (call.before.refresh_token = 0 \/ call.refresh = "failed")
              /\ call.flow = "succeeded"
                 <=> (call.refresh = "succeeded" \/ call.login = "succeeded")
              /\ call.flow = "failed" => fx.auth.self = call.before
        /\ (call.op = "get_valid_token" /\ call.needed) => call.flow # "none"

=============================================================================
